---- MODULE Spec2Model ----
(***************************************************************************)
(* TradingSuite: the signal aggregator (src/orchestrator/app.py), the      *)
(* walk-forward backtester with its position sizing and trade metrics      *)
(* (src/orchestrator/run_backtests.py) and the POST /signal endpoint of    *)
(* the seven strategy engines (src/services).                              *)
(*                                                                         *)
(* Numbers.  Confidences and thresholds are integers in thousandths (the   *)
(* engines round their confidence to three decimals); inside an engine,    *)
(* before that rounding, strengths and factors are in 1/10000.  Money is   *)
(* in whole dollars, position sizes in whole shares; a division rounds     *)
(* toward minus infinity.  Dates are day numbers.                          *)
(***************************************************************************)
EXTENDS Integers, Sequences, FiniteSets

VARIABLES
    \* ---- BacktestRunner.run_walk_forward_backtest ----
    pc,                \* position in run_walk_forward_backtest
    step,              \* number of loop iterations started
    current_date,      \* df.index[i] of the iteration (day number)
    current_price,     \* df.loc[current_date, "close"]
    signal,            \* the decision returned by get_trading_signal
    current_position,  \* None or the open position
    capital,
    trades,            \* the trade ledger
    equity_curve,
    opened,            \* history: number of positions opened so far
    requests,          \* history: number of POST /decide requests sent
    decide_reply,      \* history: what the step's POST /decide came to
    \* ---- orchestrator: POST /decide ----
    request,           \* the body of the decide request
    apc,               \* position in make_decision / aggregate_signals
    replies,           \* per engine: what its POST /signal comes to
    results,           \* per engine task of the gather: its result, or Pending
    done_order,        \* history: the engines in the order their tasks ended
    response,          \* what make_decision answers
    \* ---- one call of a function examined on its own ----
    args,              \* the arguments of the call
    ret                \* what the call returned

btVars == <<pc, step, current_date, current_price, signal, current_position,
            capital, trades, equity_curve, opened, requests, decide_reply>>
aggVars == <<request, apc, replies, results, done_order, response>>
callVars == <<args, ret>>
vars == <<btVars, aggVars, callVars>>

\* ------------------------------------------------------------------------
\* Bounds of the model
\* ------------------------------------------------------------------------
MaxSteps == 3                 \* loop iterations of one backtest run

\* Calendar days between two consecutive visited bars.
StepGaps == {3, 7}
\* Close prices of the visited bars.
ClosePrices == {100, 300}

\* ------------------------------------------------------------------------
\* Program constants
\* ------------------------------------------------------------------------
min_confidence == 700         \* 0.7
min_holding_days == 7
initial_capital == 100000
commission_rate == 1          \* 0.001, in thousandths
default_sl_pct == 25          \* 0.025, in thousandths

Min(a, b) == IF a <= b THEN a ELSE b
Max(a, b) == IF a >= b THEN a ELSE b

\* round(total / n, 3) on thousandths: to the nearest thousandth, a tie to
\* the even one.
Round3(total, n) ==
    LET q == total \div n
        r == total % n
    IN  IF 2 * r < n THEN q
        ELSE IF 2 * r > n THEN q + 1
        ELSE IF q % 2 = 0 THEN q ELSE q + 1

\* ========================================================================
\* Walk-forward backtester
\* ========================================================================

None ==
    [entry_date |-> 0, side |-> "NONE", entry_price |-> 0, size |-> 0,
     signal_confidence |-> 0]

\* What POST /decide can give the backtester: a decision, or a failure
\* (HTTP error status, transport error, timeout).
DecideReplies ==
    { [ok |-> TRUE, decision |-> "LONG", confidence |-> 850],
      [ok |-> TRUE, decision |-> "SHORT", confidence |-> 720],
      [ok |-> TRUE, decision |-> "FLAT", confidence |-> 650],
      [ok |-> FALSE, decision |-> "FLAT", confidence |-> 0] }

NoDecideReply == [ok |-> FALSE, decision |-> "NONE", confidence |-> 0]

\* A call that ended by raising instead of returning a dict.
RaisedSignal == [decision |-> "RAISED", confidence |-> 0]

\* get_trading_signal without its except clause.
get_trading_signal_Uncaught(reply) ==
    IF reply.ok
    THEN [decision |-> reply.decision, confidence |-> reply.confidence]
    ELSE RaisedSignal

get_trading_signal(reply) ==
    IF reply.ok
    THEN [decision |-> reply.decision, confidence |-> reply.confidence]
    ELSE [decision |-> "FLAT", confidence |-> 0]

\* signal.get("sl_pct", 0.025)
SlPct(sig) ==
    IF "sl_pct" \in DOMAIN sig THEN sig.sl_pct ELSE default_sl_pct

\* calculate_position_size returning the risk-based size without the cap.
calculate_position_size_NoCap(sig, price, available_capital) ==
    IF sig.decision = "FLAT" THEN 0
    ELSE LET risk_amount == available_capital * 2        \* in cents
             sl_pct == SlPct(sig)
         IN  (risk_amount * 10) \div (price * sl_pct)

\* calculate_position_size sizing on the magnitude of the capital.
calculate_position_size_AbsCapital(sig, price, available_capital) ==
    IF sig.decision = "FLAT" THEN 0
    ELSE LET magnitude == IF available_capital < 0 THEN -available_capital
                          ELSE available_capital
             risk_amount == magnitude * 2                \* in cents
             sl_pct == SlPct(sig)
             position_size == (risk_amount * 10) \div (price * sl_pct)
             max_position_value == magnitude * 95        \* in cents
             max_position_size == max_position_value \div (price * 100)
         IN  Min(position_size, max_position_size)

calculate_position_size(sig, price, available_capital) ==
    IF sig.decision = "FLAT" THEN 0
    ELSE LET risk_amount == available_capital * 2        \* in cents
             sl_pct == SlPct(sig)
             position_size == (risk_amount * 10) \div (price * sl_pct)
             max_position_value == available_capital * 95   \* in cents
             max_position_size == max_position_value \div (price * 100)
         IN  Min(position_size, max_position_size)

Commission(pos, exit_price) ==
    ((pos.entry_price + exit_price) * pos.size * commission_rate) \div 1000

\* The directional profit without the commission.
Pnl_Gross(pos, exit_price) ==
    IF pos.side = "LONG"
    THEN (exit_price - pos.entry_price) * pos.size
    ELSE (pos.entry_price - exit_price) * pos.size

Pnl(pos, exit_price) ==
    (IF pos.side = "LONG"
     THEN (exit_price - pos.entry_price) * pos.size
     ELSE (pos.entry_price - exit_price) * pos.size)
    - Commission(pos, exit_price)

Trade(pos, exit_date, exit_price) ==
    [entry_date |-> pos.entry_date,
     exit_date |-> exit_date,
     side |-> pos.side,
     entry_price |-> pos.entry_price,
     exit_price |-> exit_price,
     size |-> pos.size,
     pnl |-> Pnl(pos, exit_price),
     commission |-> Commission(pos, exit_price),
     days_held |-> exit_date - pos.entry_date,
     signal_confidence |-> pos.signal_confidence]

\* The sum of the pnl of the first n trades of a ledger.
RECURSIVE SumPnl(_, _)
SumPnl(ledger, n) ==
    IF n = 0 THEN 0 ELSE SumPnl(ledger, n - 1) + ledger[n].pnl

\* ------------------------------------------------------------------------
\* calculate_trade_metrics
\* ------------------------------------------------------------------------

\* float('inf'), and a finite ratio in thousandths.
Infinity == [infinite |-> TRUE, value |-> 0]
Finite(v) == [infinite |-> FALSE, value |-> v]

\* df_trades[df_trades["pnl"] > 0]["pnl"].sum() and its mirror.
RECURSIVE SumPositive(_, _)
SumPositive(ledger, n) ==
    IF n = 0 THEN 0
    ELSE SumPositive(ledger, n - 1)
            + (IF ledger[n].pnl > 0 THEN ledger[n].pnl ELSE 0)
RECURSIVE SumNegative(_, _)
SumNegative(ledger, n) ==
    IF n = 0 THEN 0
    ELSE SumNegative(ledger, n - 1)
            + (IF ledger[n].pnl < 0 THEN ledger[n].pnl ELSE 0)

\* The equity curve the metrics build: point 0 is the initial capital,
\* point k adds the pnl of trade k.
MetricsEquity(ledger, k) == initial_capital + SumPnl(ledger, k)

\* equity_series.expanding().max() at point k.
RollingMax(ledger, k) ==
    CHOOSE m \in {MetricsEquity(ledger, j) : j \in 0..k} :
        \A j \in 0..k : MetricsEquity(ledger, j) <= m

\* The drawdown measured from the initial capital instead of the running
\* maximum.
MaxDrawdown_FromStart(ledger) ==
    LET dd == { Round3((MetricsEquity(ledger, k) - initial_capital) * 1000,
                       initial_capital) : k \in 0..Len(ledger) }
    IN  Min(0, CHOOSE d \in dd : \A e \in dd : d <= e)

\* round(drawdown.min(), 3) in thousandths; the rounding is monotone, so
\* it is the least of the rounded drawdowns.
MaxDrawdown(ledger) ==
    LET dd == { Round3((MetricsEquity(ledger, k) - RollingMax(ledger, k)) * 1000,
                       RollingMax(ledger, k)) : k \in 0..Len(ledger) }
    IN  CHOOSE d \in dd : \A e \in dd : d <= e

calculate_trade_metrics(ledger) ==
    IF ledger = <<>>
    THEN [total_trades |-> 0, winning_trades |-> 0, losing_trades |-> 0,
          profit_factor |-> Finite(0), max_drawdown |-> 0]
    ELSE LET n == Len(ledger)
             gross_profit == SumPositive(ledger, n)
             gross_loss == -SumNegative(ledger, n)
         IN  [total_trades |-> n,
              winning_trades |-> Cardinality({k \in 1..n : ledger[k].pnl > 0}),
              losing_trades |-> Cardinality({k \in 1..n : ledger[k].pnl < 0}),
              profit_factor |->
                  IF gross_loss > 0
                  THEN Finite(Round3(gross_profit * 1000, gross_loss))
                  ELSE Infinity,
              max_drawdown |-> MaxDrawdown(ledger),
              final_capital |-> MetricsEquity(ledger, n)]

\* The dict a completed run returns: the ledger, the metrics computed from
\* it, and the equity curve of the loop.
BacktestResult(ledger, curve) ==
    [trades |-> ledger, metrics |-> calculate_trade_metrics(ledger),
     equity_curve |-> curve]

NoSignal == [decision |-> "FLAT", confidence |-> 0]

BTInit ==
    /\ pc = "start"
    /\ step = 0
    /\ current_date = 0
    /\ current_price = 0
    /\ signal = NoSignal
    /\ current_position = None
    /\ capital = initial_capital
    /\ trades = <<>>
    /\ equity_curve = <<initial_capital>>
    /\ opened = 0
    /\ requests = 0
    /\ decide_reply = NoDecideReply

\* fetch_price_data gave nothing, or fewer than window_size bars.
InsufficientData ==
    /\ UNCHANGED <<aggVars, callVars>>
    /\ pc = "start"
    /\ pc' = "error"
    /\ UNCHANGED <<step, current_date, current_price, signal, current_position,
                   capital, trades, equity_curve, opened, requests, decide_reply>>

\* Enough bars: the tracking variables are initialised.
StartRun ==
    /\ UNCHANGED <<aggVars, callVars>>
    /\ pc = "start"
    /\ trades' = <<>>
    /\ current_position' = None
    /\ capital' = initial_capital
    /\ equity_curve' = <<initial_capital>>
    /\ pc' = "loop"
    /\ UNCHANGED <<step, current_date, current_price, signal, opened, requests,
                   decide_reply>>

\* StepHead asking for a decision only when no position is open.
StepHead_AskWhenFlat ==
    /\ UNCHANGED <<aggVars, callVars>>
    /\ pc = "loop"
    /\ step < MaxSteps
    /\ \E gap \in StepGaps, close \in ClosePrices, reply \in DecideReplies :
          /\ current_date' = current_date + gap
          /\ signal' = IF current_position = None
                       THEN get_trading_signal(reply) ELSE NoSignal
          /\ decide_reply' = IF current_position = None
                             THEN reply ELSE NoDecideReply
          /\ current_price' = close
    /\ requests' = IF current_position = None THEN requests + 1 ELSE requests
    /\ step' = step + 1
    /\ pc' = "exit"
    /\ UNCHANGED <<current_position, capital, trades, equity_curve, opened>>

\* Head of a loop iteration: the bar of the step, the decide request and
\* the close price.  An exception get_trading_signal let out would end
\* run_walk_forward_backtest there.
StepHead ==
    /\ UNCHANGED <<aggVars, callVars>>
    /\ pc = "loop"
    /\ step < MaxSteps
    /\ \E gap \in StepGaps, close \in ClosePrices, reply \in DecideReplies :
          /\ current_date' = current_date + gap
          /\ decide_reply' = reply
          /\ signal' = get_trading_signal(reply)
          /\ current_price' = close
          /\ pc' = IF get_trading_signal(reply) = RaisedSignal
                   THEN "aborted" ELSE "exit"
    /\ requests' = requests + 1
    /\ step' = step + 1
    /\ UNCHANGED <<current_position, capital, trades, equity_curve, opened>>

\* ExitEval closing only after more than min_holding_days.
ExitEval_Strict ==
    /\ UNCHANGED <<aggVars, callVars>>
    /\ pc = "exit"
    /\ LET days_held == current_date - current_position.entry_date
       IN  IF current_position # None /\ days_held > min_holding_days
           THEN /\ capital' = capital + Pnl(current_position, current_price)
                /\ trades' = Append(trades,
                                Trade(current_position, current_date, current_price))
                /\ current_position' = None
           ELSE UNCHANGED <<capital, trades, current_position>>
    /\ pc' = "entry"
    /\ UNCHANGED <<step, current_date, current_price, signal, equity_curve,
                   opened, requests, decide_reply>>

\* ExitEval closing a held position whatever its age.
ExitEval_NoHolding ==
    /\ UNCHANGED <<aggVars, callVars>>
    /\ pc = "exit"
    /\ IF current_position # None
       THEN /\ capital' = capital + Pnl(current_position, current_price)
            /\ trades' = Append(trades,
                            Trade(current_position, current_date, current_price))
            /\ current_position' = None
       ELSE UNCHANGED <<capital, trades, current_position>>
    /\ pc' = "entry"
    /\ UNCHANGED <<step, current_date, current_price, signal, equity_curve,
                   opened, requests, decide_reply>>

\* "Handle existing position".
ExitEval ==
    /\ UNCHANGED <<aggVars, callVars>>
    /\ pc = "exit"
    /\ LET days_held == current_date - current_position.entry_date
       IN  IF current_position # None /\ days_held >= min_holding_days
           THEN /\ capital' = capital + Pnl(current_position, current_price)
                /\ trades' = Append(trades,
                                Trade(current_position, current_date, current_price))
                /\ current_position' = None
           ELSE UNCHANGED <<capital, trades, current_position>>
    /\ pc' = "entry"
    /\ UNCHANGED <<step, current_date, current_price, signal, equity_curve,
                   opened, requests, decide_reply>>

\* EntryEval without the "not current_position" test.
EntryEval_NoHeldCheck ==
    /\ UNCHANGED <<aggVars, callVars>>
    /\ pc = "entry"
    /\ LET position_size ==
               calculate_position_size(signal, current_price, capital)
       IN  IF signal.decision # "FLAT" /\ position_size > 0
           THEN /\ current_position' =
                       [entry_date |-> current_date,
                        side |-> signal.decision,
                        entry_price |-> current_price,
                        size |-> position_size,
                        signal_confidence |-> signal.confidence]
                /\ opened' = opened + 1
           ELSE UNCHANGED <<current_position, opened>>
    /\ equity_curve' = Append(equity_curve, capital)
    /\ pc' = "loop"
    /\ UNCHANGED <<step, current_date, current_price, signal, capital, trades,
                   requests, decide_reply>>

\* EntryEval without the "position_size > 0" test.
EntryEval_NoSizeCheck ==
    /\ UNCHANGED <<aggVars, callVars>>
    /\ pc = "entry"
    /\ LET position_size ==
               calculate_position_size(signal, current_price, capital)
       IN  IF current_position = None /\ signal.decision # "FLAT"
           THEN /\ current_position' =
                       [entry_date |-> current_date,
                        side |-> signal.decision,
                        entry_price |-> current_price,
                        size |-> position_size,
                        signal_confidence |-> signal.confidence]
                /\ opened' = opened + 1
           ELSE UNCHANGED <<current_position, opened>>
    /\ equity_curve' = Append(equity_curve, capital)
    /\ pc' = "loop"
    /\ UNCHANGED <<step, current_date, current_price, signal, capital, trades,
                   requests, decide_reply>>

\* EntryEval adding a point to the equity curve only when capital moved.
EntryEval_CurveOnChange ==
    /\ UNCHANGED <<aggVars, callVars>>
    /\ pc = "entry"
    /\ LET position_size ==
               calculate_position_size(signal, current_price, capital)
       IN  IF current_position = None /\ signal.decision # "FLAT"
              /\ position_size > 0
           THEN /\ current_position' =
                       [entry_date |-> current_date,
                        side |-> signal.decision,
                        entry_price |-> current_price,
                        size |-> position_size,
                        signal_confidence |-> signal.confidence]
                /\ opened' = opened + 1
           ELSE UNCHANGED <<current_position, opened>>
    /\ equity_curve' = IF capital # equity_curve[Len(equity_curve)]
                       THEN Append(equity_curve, capital)
                       ELSE equity_curve
    /\ pc' = "loop"
    /\ UNCHANGED <<step, current_date, current_price, signal, capital, trades,
                   requests, decide_reply>>

\* "Handle new position", then "Update equity curve".
EntryEval ==
    /\ UNCHANGED <<aggVars, callVars>>
    /\ pc = "entry"
    /\ LET position_size ==
               calculate_position_size(signal, current_price, capital)
       IN  IF current_position = None /\ signal.decision # "FLAT"
              /\ position_size > 0
           THEN /\ current_position' =
                       [entry_date |-> current_date,
                        side |-> signal.decision,
                        entry_price |-> current_price,
                        size |-> position_size,
                        signal_confidence |-> signal.confidence]
                /\ opened' = opened + 1
           ELSE UNCHANGED <<current_position, opened>>
    /\ equity_curve' = Append(equity_curve, capital)
    /\ pc' = "loop"
    /\ UNCHANGED <<step, current_date, current_price, signal, capital, trades,
                   requests, decide_reply>>

\* The end of the loop dropping a position that is still open.
ForceClose_Drop ==
    /\ UNCHANGED <<aggVars, args>>
    /\ pc = "loop"
    /\ \E gap \in {0} \cup StepGaps, close \in ClosePrices :
          /\ gap = 0 /\ step > 0 => close = current_price
          /\ current_date' = current_date + gap
          /\ current_price' = close
    /\ ret' = [returned |-> TRUE, value |-> BacktestResult(trades, equity_curve)]
    /\ pc' = "done"
    /\ UNCHANGED <<step, signal, current_position, capital, trades,
                   equity_curve, opened, requests, decide_reply>>

\* ForceClose recording the trade without adding its pnl to the capital.
ForceClose_NoCredit ==
    /\ UNCHANGED <<aggVars, args>>
    /\ pc = "loop"
    /\ \E gap \in {0} \cup StepGaps, close \in ClosePrices :
          /\ gap = 0 /\ step > 0 => close = current_price
          /\ LET final_date == current_date + gap
                 final_price == close
             IN  /\ current_date' = final_date
                 /\ current_price' = final_price
                 /\ IF current_position # None
                    THEN trades' = Append(trades,
                                  Trade(current_position, final_date, final_price))
                    ELSE UNCHANGED trades
    /\ ret' = [returned |-> TRUE, value |-> BacktestResult(trades', equity_curve)]
    /\ pc' = "done"
    /\ UNCHANGED <<step, signal, current_position, capital, equity_curve, opened,
                   requests, decide_reply>>

\* The loop is over: "Close any remaining position" at the last bar of df,
\* which is the last visited bar (gap 0) or a later one; then the metrics are
\* computed from the ledger and the result is returned.
ForceClose ==
    /\ UNCHANGED <<aggVars, args>>
    /\ pc = "loop"
    /\ \E gap \in {0} \cup StepGaps, close \in ClosePrices :
          /\ gap = 0 /\ step > 0 => close = current_price
          /\ LET final_date == current_date + gap
                 final_price == close
             IN  /\ current_date' = final_date
                 /\ current_price' = final_price
                 /\ IF current_position # None
                    THEN /\ capital' = capital + Pnl(current_position, final_price)
                         /\ trades' = Append(trades,
                                  Trade(current_position, final_date, final_price))
                    ELSE UNCHANGED <<capital, trades>>
    /\ ret' = [returned |-> TRUE, value |-> BacktestResult(trades', equity_curve)]
    /\ pc' = "done"
    /\ UNCHANGED <<step, signal, current_position, equity_curve, opened,
                   requests, decide_reply>>

BTNext ==
    \/ InsufficientData
    \/ StartRun
    \/ StepHead
    \/ ExitEval
    \/ EntryEval
    \/ ForceClose

\* ========================================================================
\* Orchestrator: POST /decide
\* ========================================================================

\* SERVICE_URLS, in the order of its keys.
Engines ==
    <<"supertrend", "alphatrend", "ichimoku", "qqe_ssl_wae", "turtle",
      "meanrev", "trend">>
NumEngines == Len(Engines)
EngineIds == 1..NumEngines

\* What a POST /signal to an engine can come to: a response (the engines
\* answer LONG, SHORT or FLAT with a confidence rounded to 3 decimals), an
\* HTTP error status, or a transport error / timeout.
EngineReplies ==
    { [kind |-> "ok", signal |-> "LONG", confidence |-> 800],
      [kind |-> "ok", signal |-> "SHORT", confidence |-> 700],
      [kind |-> "ok", signal |-> "FLAT", confidence |-> 650],
      [kind |-> "http_status", signal |-> "", confidence |-> 0],
      [kind |-> "exception", signal |-> "", confidence |-> 0] }

\* The bodies of a decide request: symbol present or missing, min_conf
\* given or absent.
Absent == [given |-> FALSE, value |-> 0]
Given(v) == [given |-> TRUE, value |-> v]
DecideRequests ==
    { [symbol |-> sym, min_conf |-> mc] :
        sym \in {"", "XAUUSD=X"}, mc \in {Absent, Given(800)} }

Pending == [signal |-> "PENDING", confidence |-> 0, rationale |-> ""]
\* A task that ended by raising instead of returning a dict.
Raised == [signal |-> "RAISED", confidence |-> 0, rationale |-> ""]
NoReply == [kind |-> "none", signal |-> "", confidence |-> 0]

\* get_signal_from_service with raise_for_status raising on an HTTP error.
get_signal_from_service_HttpUncaught(reply) ==
    IF reply.kind = "ok"
    THEN [signal |-> reply.signal, confidence |-> reply.confidence,
          rationale |-> "engine rationale"]
    ELSE IF reply.kind = "http_status"
    THEN Raised
    ELSE [signal |-> "FLAT", confidence |-> 0, rationale |-> "Service error"]

get_signal_from_service(reply) ==
    IF reply.kind = "ok"
    THEN [signal |-> reply.signal, confidence |-> reply.confidence,
          rationale |-> "engine rationale"]
    ELSE IF reply.kind = "http_status"
    THEN [signal |-> "FLAT", confidence |-> 0,
          rationale |-> "Service HTTP error"]
    ELSE [signal |-> "FLAT", confidence |-> 0, rationale |-> "Service error"]

\* The list a gather in completion order would return.
GatherResults_CompletionOrder(res, order) ==
    [i \in EngineIds |-> IF i <= Len(order) THEN res[order[i]] ELSE res[i]]

\* results = await asyncio.gather(*tasks): the results in the order of the
\* tasks, whatever the order in which they ended.
GatherResults(res, order) == res

\* request.get("min_conf", 0.7)
RequestMinConf(req) ==
    IF req.min_conf.given THEN req.min_conf.value ELSE min_confidence

\* The loop without the test on FLAT: every component counts as a signal.
RECURSIVE Tally_CountAll(_, _)
Tally_CountAll(res, n) ==
    IF n = 0
    THEN [components |-> <<>>, long_signals |-> 0, short_signals |-> 0,
          total_confidence |-> 0, valid_signals |-> 0]
    ELSE LET t == Tally_CountAll(res, n - 1)
             result == res[n]
             comps == Append(t.components,
                         [svc |-> Engines[n], signal |-> result.signal,
                          confidence |-> result.confidence,
                          rationale |-> result.rationale])
         IN  [components |-> comps,
              valid_signals |-> t.valid_signals + 1,
              total_confidence |-> t.total_confidence + result.confidence,
              long_signals |-> t.long_signals
                   + (IF result.signal = "LONG" THEN 1 ELSE 0),
              short_signals |-> t.short_signals
                   + (IF result.signal = "SHORT" THEN 1 ELSE 0)]

\* The loop over zip(SERVICE_URLS.keys(), results), engine by engine.
RECURSIVE Tally(_, _)
Tally(res, n) ==
    IF n = 0
    THEN [components |-> <<>>, long_signals |-> 0, short_signals |-> 0,
          total_confidence |-> 0, valid_signals |-> 0]
    ELSE LET t == Tally(res, n - 1)
             result == res[n]
             comps == Append(t.components,
                         [svc |-> Engines[n], signal |-> result.signal,
                          confidence |-> result.confidence,
                          rationale |-> result.rationale])
         IN  IF result.signal # "FLAT"
             THEN [components |-> comps,
                   valid_signals |-> t.valid_signals + 1,
                   total_confidence |-> t.total_confidence + result.confidence,
                   long_signals |-> t.long_signals
                        + (IF result.signal = "LONG" THEN 1 ELSE 0),
                   short_signals |-> t.short_signals
                        + (IF result.signal = "SHORT" THEN 1 ELSE 0)]
             ELSE [t EXCEPT !.components = comps]

\* "Determine direction based on majority".
Direction(t) ==
    IF t.long_signals > t.short_signals THEN "LONG"
    ELSE IF t.short_signals > t.long_signals THEN "SHORT"
    ELSE "FLAT"

\* IEEE-754 doubles: the pairs <<c, n>> for which n copies of c / 1000 added
\* to 0.0 one by one and divided by n give a double below c / 1000
\* (0.7 + 0.7 + 0.7 = 2.0999999999999996, and 2.0999999999999996 / 3 =
\* 0.6999999999999998).
RoundedDownMeans == {<<700, 3>>, <<800, 6>>, <<800, 7>>}

\* avg_confidence < min_conf, where avg_confidence = total_confidence /
\* valid_signals is a double.  Off the boundary the doubles compare as the
\* exact values do (the exact values differ by at least 1/7 of a
\* thousandth).  On the boundary, reached in this model only when every
\* non-FLAT confidence equals min_conf, the rounding of the sum decides.
AvgBelow(t, min_conf) ==
    IF t.total_confidence # min_conf * t.valid_signals
    THEN t.total_confidence < min_conf * t.valid_signals
    ELSE /\ <<min_conf, t.valid_signals>> \in RoundedDownMeans
         /\ \A k \in 1..Len(t.components) :
               t.components[k].signal # "FLAT" =>
                   t.components[k].confidence = min_conf

\* The confidence gate answering confidence 0 for a suppressed decision.
FinalDecision_GateZero(t, min_conf) ==
    IF t.valid_signals = 0
    THEN [decision |-> "FLAT", confidence |-> 0]
    ELSE IF AvgBelow(t, min_conf)
    THEN [decision |-> "FLAT", confidence |-> 0]
    ELSE [decision |-> Direction(t),
          confidence |-> Round3(t.total_confidence, t.valid_signals)]

\* "Calculate final decision", with the round(confidence, 3) of the return.
FinalDecision(t, min_conf) ==
    IF t.valid_signals = 0
    THEN [decision |-> "FLAT", confidence |-> 0]
    ELSE IF AvgBelow(t, min_conf)
    THEN [decision |-> "FLAT",
          confidence |-> Round3(t.total_confidence, t.valid_signals)]
    ELSE [decision |-> Direction(t),
          confidence |-> Round3(t.total_confidence, t.valid_signals)]

\* The dict aggregate_signals returns.
aggregate_signals(res, min_conf) ==
    LET t == Tally(res, NumEngines)
        d == FinalDecision(t, min_conf)
    IN  [status |-> 200,
         decision |-> d.decision,
         confidence |-> d.confidence,
         components |-> t.components,
         sl_pct |-> default_sl_pct,
         total_signals |-> NumEngines,
         valid_signals |-> t.valid_signals,
         long_signals |-> t.long_signals,
         short_signals |-> t.short_signals,
         min_confidence_threshold |-> min_conf]

NoResponse ==
    [status |-> 0, decision |-> "", confidence |-> 0, components |-> <<>>,
     sl_pct |-> 0, total_signals |-> 0, valid_signals |-> 0,
     long_signals |-> 0, short_signals |-> 0, min_confidence_threshold |-> 0]

ErrorResponse(code) == [NoResponse EXCEPT !.status = code]

\* make_decision's handler: "except Exception" catches whatever the body
\* raises, the HTTPException(400) included, and raises HTTPException(500).
ExceptHandler(raised) == 500

\* make_decision up to the gather: a missing symbol raises
\* HTTPException(400) inside the try block; otherwise aggregate_signals
\* creates one task per engine.
MakeDecision ==
    /\ UNCHANGED <<btVars, callVars>>
    /\ apc = "request"
    /\ IF request.symbol = ""
       THEN /\ response' = ErrorResponse(ExceptHandler(400))
            /\ apc' = "done"
            /\ UNCHANGED results
       ELSE /\ results' = [i \in EngineIds |-> Pending]
            /\ apc' = "gather"
            /\ UNCHANGED response
    /\ UNCHANGED <<request, replies, done_order>>

\* One task of the gather runs to its end: the POST /signal of engine i is
\* answered, fails or times out.  Tasks end in any order.
EngineCall(i) ==
    /\ UNCHANGED <<btVars, callVars>>
    /\ apc = "gather"
    /\ results[i] = Pending
    /\ \E reply \in EngineReplies :
          /\ replies' = [replies EXCEPT ![i] = reply]
          /\ results' = [results EXCEPT ![i] = get_signal_from_service(reply)]
    /\ UNCHANGED <<request, apc, done_order, response>>

\* The same task when the replies of the engines are fixed beforehand and
\* the order in which the tasks end is recorded.
EngineCallRecorded(i) ==
    /\ UNCHANGED <<btVars, callVars>>
    /\ apc = "gather"
    /\ results[i] = Pending
    /\ results' = [results EXCEPT ![i] = get_signal_from_service(replies[i])]
    /\ done_order' = Append(done_order, i)
    /\ UNCHANGED <<request, apc, replies, response>>

\* asyncio.gather returns once every task has ended (an exception of a task
\* is raised by the await and caught by make_decision's handler); the
\* reduction and make_decision's return follow.
Reduce ==
    /\ UNCHANGED <<btVars, callVars>>
    /\ apc = "gather"
    /\ \A i \in EngineIds : results[i] # Pending
    /\ response' =
          IF \E i \in EngineIds : results[i] = Raised
          THEN ErrorResponse(ExceptHandler(0))
          ELSE aggregate_signals(GatherResults(results, done_order),
                                 RequestMinConf(request))
    /\ apc' = "done"
    /\ UNCHANGED <<request, replies, results, done_order>>

AggNext ==
    \/ MakeDecision
    \/ \E i \in EngineIds : EngineCall(i)
    \/ Reduce

GatherNext ==
    \/ MakeDecision
    \/ \E i \in EngineIds : EngineCallRecorded(i)
    \/ Reduce

\* No function call under examination.
NoReturn == [returned |-> FALSE, value |-> 0]
CallIdle ==
    /\ args = <<>>
    /\ ret = NoReturn

AggIdle ==
    /\ request = [symbol |-> "", min_conf |-> Absent]
    /\ apc = "off"
    /\ replies = <<>>
    /\ results = <<>>
    /\ done_order = <<>>
    /\ response = NoResponse

BTIdle ==
    /\ pc = "off"
    /\ step = 0
    /\ current_date = 0
    /\ current_price = 0
    /\ signal = NoSignal
    /\ current_position = None
    /\ capital = initial_capital
    /\ trades = <<>>
    /\ equity_curve = <<initial_capital>>
    /\ opened = 0
    /\ requests = 0
    /\ decide_reply = NoDecideReply

InitAgg ==
    /\ BTIdle
    /\ request \in DecideRequests
    /\ apc = "request"
    /\ replies = [i \in EngineIds |-> NoReply]
    /\ results = <<>>
    /\ done_order = <<>>
    /\ response = NoResponse
    /\ CallIdle

SpecAgg == InitAgg /\ [][AggNext]_vars

\* The replies of the seven engines to one request, fixed beforehand (each
\* call is pure given its input bars): two replies split over the engines.
ScriptSplits == {{1, 2, 3}, {2, 4, 6, 7}}
ReplyScripts ==
    { [i \in EngineIds |-> IF i \in S THEN a ELSE b] :
        S \in ScriptSplits,
        a \in { [kind |-> "ok", signal |-> "LONG", confidence |-> 800],
                [kind |-> "ok", signal |-> "SHORT", confidence |-> 700],
                [kind |-> "http_status", signal |-> "", confidence |-> 0] },
        b \in { [kind |-> "ok", signal |-> "LONG", confidence |-> 600],
                [kind |-> "ok", signal |-> "SHORT", confidence |-> 700],
                [kind |-> "ok", signal |-> "FLAT", confidence |-> 650],
                [kind |-> "exception", signal |-> "", confidence |-> 0] } }

InitGather ==
    /\ BTIdle
    /\ request = [symbol |-> "XAUUSD=X", min_conf |-> Absent]
    /\ apc = "request"
    /\ replies \in ReplyScripts
    /\ results = <<>>
    /\ done_order = <<>>
    /\ response = NoResponse
    /\ CallIdle

SpecGather == InitGather /\ [][GatherNext]_vars

\* A run that has not returned its result yet.
RunPending == [returned |-> FALSE, value |-> [pending |-> TRUE]]
InitBT ==
    /\ BTInit
    /\ AggIdle
    /\ args = <<>>
    /\ ret = RunPending

SpecBT == InitBT /\ [][BTNext]_vars

\* The run as the event loop drives it: every await of the loop returns
\* (the requests carry timeouts) and the for loop goes on to its next
\* iteration, so a step that can be taken is taken.
SpecBTLive == InitBT /\ [][BTNext]_vars /\ WF_vars(BTNext)

\* ========================================================================
\* calculate_position_size, called on its own
\* ========================================================================

\* The signals given to calculate_position_size: with or without a sl_pct
\* of their own (in thousandths).
SizingSignals ==
    { [decision |-> d, confidence |-> 800] : d \in {"LONG", "SHORT", "FLAT"} }
    \cup { [decision |-> d, confidence |-> 800, sl_pct |-> sl] :
              d \in {"LONG", "SHORT", "FLAT"}, sl \in {10, 15, 21, 50} }
SizingPrices == {1, 37, 100, 300, 2000}
SizingCapitals == {-5000, 0, 1000, 50000, 100000, 123457}

InitSize ==
    /\ BTIdle
    /\ AggIdle
    /\ args \in [signal : SizingSignals, current_price : SizingPrices,
                  available_capital : SizingCapitals]
    /\ ret = NoReturn

CallPositionSize ==
    /\ UNCHANGED <<btVars, aggVars>>
    /\ ~ret.returned
    /\ ret' = [returned |-> TRUE,
               value |-> calculate_position_size(args.signal, args.current_price,
                                                 args.available_capital)]
    /\ UNCHANGED args

SizeNext == CallPositionSize

SpecSize == InitSize /\ [][SizeNext]_vars

\* ========================================================================
\* calculate_trade_metrics, called on a trade ledger
\* ========================================================================

MaxTrades == 3                \* trades of a ledger given to the metrics

\* The pnl of a trade of such a ledger: a loss, a loss below 0.05% of the
\* capital, nothing, a profit.
PnlValues == {-2000, -40, 0, 3000}
Ledgers ==
    UNION { [1..n -> [pnl : PnlValues]] : n \in 0..MaxTrades }

InitMetrics ==
    /\ BTIdle
    /\ AggIdle
    /\ args \in [trades : Ledgers]
    /\ ret = NoReturn

CallTradeMetrics ==
    /\ UNCHANGED <<btVars, aggVars>>
    /\ ~ret.returned
    /\ ret' = [returned |-> TRUE, value |-> calculate_trade_metrics(args.trades)]
    /\ UNCHANGED args

MetricsNext == CallTradeMetrics

SpecMetrics == InitMetrics /\ [][MetricsNext]_vars

\* ========================================================================
\* Strategy engines: POST /signal
\* ========================================================================

engine_default_min_conf == 500   \* request.get("min_conf", 0.5)

\* Per engine, in the order of Engines: the bars below which the endpoint
\* answers "Insufficient data", and the bars below which generate_signal
\* returns its own insufficient-data result.
EndpointMinBars == <<50, 50, 100, 100, 50, 50, 200>>
StrategyMinBars == <<2, 2, 27, 21, 21, 21, 210>>

\* What an engine works from: the bars the monolith gives it (-1: the
\* fetch failed and df is None), the direction its indicators give, the
\* signal strength it accumulates, the trend strength and volatility
\* factor of MarketAnalyzer (all three in 1/10000), and whether the ADX
\* gate of the mean-reversion engine closes.
Markets ==
    [bars : {-1, 1, 49, 120, 205, 260},
     raw : {"LONG", "SHORT", "FLAT"},
     signal_strength : {-500, 3000, 6500, 7000, 15000},
     trend_strength : {0, 2515, 10000},
     volatility_factor : {0, 10000, 30070, 200000},
     adx_gate : BOOLEAN]

EngineRequests ==
    { [symbol |-> sym, min_conf |-> mc] :
        sym \in {"", "XAUUSD=X"}, mc \in {Absent, Given(700)} }

\* SignalProcessor.calculate_confidence without the final clamp.
calculate_confidence_NoClamp(signal_strength, market_conditions) ==
    LET base_confidence == signal_strength
        trend_adjustment == market_conditions.trend_strength \div 5
        volatility_adjustment ==
            -((market_conditions.volatility_factor - 10000) \div 10)
    IN  base_confidence + trend_adjustment + volatility_adjustment

\* SignalProcessor.calculate_confidence, in 1/10000.
calculate_confidence(signal_strength, market_conditions) ==
    LET base_confidence == signal_strength
        trend_adjustment == market_conditions.trend_strength \div 5
        volatility_adjustment ==
            -((market_conditions.volatility_factor - 10000) \div 10)
        confidence == base_confidence + trend_adjustment + volatility_adjustment
    IN  IF confidence > 10000 THEN 10000
        ELSE IF confidence < 0 THEN 0 ELSE confidence

\* SignalProcessor.validate_signal, confidences in thousandths.
validate_signal(sig, confidence, min_conf) ==
    IF sig \notin {"LONG", "SHORT", "FLAT"} THEN FALSE
    ELSE IF sig = "FLAT" THEN TRUE
    ELSE confidence >= min_conf

\* An engine's answer: a signal with HTTP status 200, or an HTTP error.
SignalResponse(sig, confidence, rationale) ==
    [status |-> 200, signal |-> sig, confidence |-> confidence,
     rationale |-> rationale]
HttpError(code) ==
    [status |-> code, signal |-> "", confidence |-> 0, rationale |-> <<>>]

\* generate_signal of engine e: the insufficient-data return, the ADX gate
\* of the mean-reversion engine, or the signal with its confidence
\* formatted by format_signal_response (rounded to three decimals).
generate_signal(e, market) ==
    IF market.bars < StrategyMinBars[e]
    THEN SignalResponse("FLAT", 0,
                        <<"Insufficient data for signal generation">>)
    ELSE IF Engines[e] = "meanrev" /\ market.adx_gate
    THEN SignalResponse("FLAT", 0, <<"ADX too high">>)
    ELSE SignalResponse(market.raw,
                        Round3(calculate_confidence(market.signal_strength,
                                   [trend_strength |-> market.trend_strength,
                                    volatility_factor |->
                                        market.volatility_factor]), 10),
                        <<"engine rationale">>)

\* request.get("min_conf", 0.5)
EngineMinConf(req) ==
    IF req.min_conf.given THEN req.min_conf.value ELSE engine_default_min_conf

\* get_signal forcing FLAT and resetting the confidence it reports.
get_signal_ZeroBelow(e, req, market) ==
    IF req.symbol = "" THEN HttpError(400)
    ELSE IF market.bars < EndpointMinBars[e] THEN HttpError(404)
    ELSE LET result == generate_signal(e, market)
             min_conf == EngineMinConf(req)
         IN  IF ~validate_signal(result.signal, result.confidence, min_conf)
             THEN SignalResponse("FLAT", 0,
                      Append(result.rationale, "Signal confidence below minimum"))
             ELSE result

\* The POST /signal handler of engine e.  An HTTPException raised in the
\* body is re-raised as it is ("except HTTPException: raise").
get_signal(e, req, market) ==
    IF req.symbol = "" THEN HttpError(400)
    ELSE IF market.bars < EndpointMinBars[e] THEN HttpError(404)
    ELSE LET result == generate_signal(e, market)
             min_conf == EngineMinConf(req)
         IN  IF ~validate_signal(result.signal, result.confidence, min_conf)
             THEN SignalResponse("FLAT", result.confidence,
                      Append(result.rationale, "Signal confidence below minimum"))
             ELSE result

InitEngine ==
    /\ BTIdle
    /\ AggIdle
    /\ args \in [engine : EngineIds, request : EngineRequests, market : Markets]
    /\ ret = NoReturn

\* One POST /signal to one engine, answered.
PostSignal ==
    /\ UNCHANGED <<btVars, aggVars>>
    /\ ~ret.returned
    /\ ret' = [returned |-> TRUE,
               value |-> get_signal(args.engine, args.request, args.market)]
    /\ UNCHANGED args

EngineNext == PostSignal

SpecEngine == InitEngine /\ [][EngineNext]_vars

\* ========================================================================
\* The aggregator with the seven engines behind it
\* ========================================================================

\* What httpx makes of an engine's answer: the JSON body of a 200, or the
\* HTTPStatusError raise_for_status raises.
EngineReply(answer) ==
    IF answer.status = 200
    THEN [kind |-> "ok", signal |-> answer.signal,
          confidence |-> answer.confidence]
    ELSE [kind |-> "http_status", signal |-> "", confidence |-> 0]

\* The markets of one aggregation, engine by engine: the engines of one
\* group see a market of their own, the others another.
SuiteSplits == {{1, 2, 3, 4}, {5, 6, 7}}
SuiteMarketsA ==
    { m \in Markets : m.bars = 260 /\ m.raw = "LONG" /\ ~m.adx_gate }
SuiteMarketsB ==
    { m \in Markets :
        /\ m.bars \in {49, 205, 260}
        /\ m.raw \in {"SHORT", "FLAT"}
        /\ m.signal_strength = 7000
        /\ m.trend_strength = 2515
        /\ m.volatility_factor = 10000
        /\ (m.adx_gate => m.raw = "SHORT" /\ m.bars = 260) }
MarketScripts ==
    { [i \in EngineIds |-> IF i \in S THEN a ELSE b] :
        S \in SuiteSplits, a \in SuiteMarketsA, b \in SuiteMarketsB }

InitSuite ==
    /\ BTIdle
    /\ request \in { [symbol |-> "XAUUSD=X", min_conf |-> mc] :
                         mc \in {Absent, Given(800)} }
    /\ apc = "request"
    /\ replies = [i \in EngineIds |-> NoReply]
    /\ results = <<>>
    /\ done_order = <<>>
    /\ response = NoResponse
    /\ args \in MarketScripts
    /\ ret = NoReturn

\* One task of the gather: the POST /signal to engine i, carrying the
\* aggregation's symbol and min_conf, is answered by the engine.
EngineServe(i) ==
    /\ UNCHANGED <<btVars, callVars>>
    /\ apc = "gather"
    /\ results[i] = Pending
    /\ LET answer == get_signal(i, [symbol |-> request.symbol,
                                    min_conf |-> Given(RequestMinConf(request))],
                                args[i])
       IN  /\ replies' = [replies EXCEPT ![i] = EngineReply(answer)]
           /\ results' = [results EXCEPT
                             ![i] = get_signal_from_service(EngineReply(answer))]
    /\ UNCHANGED <<request, apc, done_order, response>>

SuiteNext ==
    \/ MakeDecision
    \/ \E i \in EngineIds : EngineServe(i)
    \/ Reduce

SpecSuite == InitSuite /\ [][SuiteNext]_vars

\* ========================================================================
\* The directional band recurrence (Supertrend, AlphaTrend)
\* ========================================================================

MaxBars == 4
alpha_period == 21

\* A float: a number or NaN.  Every comparison with NaN is False.
Float(x) == [nan |-> FALSE, v |-> x]
NaN == [nan |-> TRUE, v |-> 0]
FloatLt(a, b) == ~a.nan /\ ~b.nan /\ a.v < b.v
FloatLe(a, b) == ~a.nan /\ ~b.nan /\ a.v <= b.v
\* Python's min(a, b) and max(a, b): the first argument unless the second
\* compares strictly smaller (greater).
PyMin(a, b) == IF FloatLt(b, a) THEN b ELSE a
PyMax(a, b) == IF FloatLt(a, b) THEN b ELSE a

\* Prices are whole multiples of PriceUnit, which makes the smoothing
\* alpha * x + (1 - alpha) * prev, alpha = 2 / (alpha_period + 1), exact
\* over MaxBars bars.
PriceUnit == ((alpha_period + 1) \div 2) ^ MaxBars
\* alpha * x + (1 - alpha) * prev
Smooth(x, prev) ==
    IF x.nan \/ prev.nan THEN NaN
    ELSE Float((2 * x.v + (alpha_period + 1 - 2) * prev.v) \div (alpha_period + 1))

\* A bar as the loop reads it: the close and the envelope hl2 +/- multiplier
\* * atr.  The rolling ATR has no value on the first bar, so the envelope of
\* the first bar is NaN.
EnvelopeBars ==
    { [close |-> Float(c * PriceUnit), upper_band |-> Float(e[1] * PriceUnit),
       lower_band |-> Float(e[2] * PriceUnit)] :
         c \in {90, 100, 110}, e \in {<<100, 80>>, <<120, 100>>} }
WarmupBars ==
    { [close |-> Float(c * PriceUnit), upper_band |-> NaN, lower_band |-> NaN] :
         c \in {90, 100, 110} }
RECURSIVE BarsOfLen(_)
BarsOfLen(n) ==
    IF n = 1 THEN { <<b>> : b \in WarmupBars }
    ELSE { Append(h, b) : h \in BarsOfLen(n - 1), b \in EnvelopeBars }
Histories == BarsOfLen(MaxBars)

\* The body of calculate_supertrend's loop at index i (from 1) with the
\* series computed so far, but following the extreme of all the earlier
\* values instead of the previous one.
supertrend_at_AllEarlier(bars, series, i) ==
    IF i = 1 THEN [value |-> bars[1].lower_band, direction |-> 1]
    ELSE
      LET prev_direction == series[i - 1].direction
          current_upper == bars[i].upper_band
          current_lower == bars[i].lower_band
          current_close == bars[i].close
          RECURSIVE Fold(_, _, _)
          Fold(j, acc, up) ==
              IF j = 0 THEN acc
              ELSE Fold(j - 1, IF up THEN PyMin(acc, series[j].value)
                                     ELSE PyMax(acc, series[j].value), up)
      IN  IF prev_direction = 1
          THEN IF FloatLe(current_close, current_lower)
               THEN [value |-> current_lower, direction |-> -1]
               ELSE [value |-> Fold(i - 1, current_upper, TRUE), direction |-> 1]
          ELSE IF FloatLe(current_upper, current_close)
               THEN [value |-> current_upper, direction |-> 1]
               ELSE [value |-> Fold(i - 1, current_lower, FALSE),
                     direction |-> -1]

\* The body of the loop with a strict test for the flip down.
supertrend_at_StrictFlip(bars, series, i) ==
    IF i = 1 THEN [value |-> bars[1].lower_band, direction |-> 1]
    ELSE
      LET prev_supertrend == series[i - 1].value
          prev_direction == series[i - 1].direction
          current_upper == bars[i].upper_band
          current_lower == bars[i].lower_band
          current_close == bars[i].close
      IN  IF prev_direction = 1
          THEN IF FloatLt(current_close, current_lower)
               THEN [value |-> current_lower, direction |-> -1]
               ELSE [value |-> PyMin(current_upper, prev_supertrend),
                     direction |-> 1]
          ELSE IF FloatLe(current_upper, current_close)
               THEN [value |-> current_upper, direction |-> 1]
               ELSE [value |-> PyMax(current_lower, prev_supertrend),
                     direction |-> -1]

\* The body of calculate_supertrend's loop at index i (from 1), given the
\* bars and the series computed so far.
supertrend_at(bars, series, i) ==
    IF i = 1 THEN [value |-> bars[1].lower_band, direction |-> 1]
    ELSE
      LET prev_supertrend == series[i - 1].value
          prev_direction == series[i - 1].direction
          current_upper == bars[i].upper_band
          current_lower == bars[i].lower_band
          current_close == bars[i].close
      IN  IF prev_direction = 1
          THEN IF FloatLe(current_close, current_lower)
               THEN [value |-> current_lower, direction |-> -1]
               ELSE [value |-> PyMin(current_upper, prev_supertrend),
                     direction |-> 1]
          ELSE IF FloatLe(current_upper, current_close)
               THEN [value |-> current_upper, direction |-> 1]
               ELSE [value |-> PyMax(current_lower, prev_supertrend),
                     direction |-> -1]

\* The body of calculate_alpha_trend's loop at index i (from 1).
alpha_trend_at(bars, series, i) ==
    IF i = 1 THEN [value |-> bars[1].lower_band, direction |-> 1]
    ELSE
      LET prev_alpha_trend == series[i - 1].value
          prev_direction == series[i - 1].direction
          current_upper == bars[i].upper_band
          current_lower == bars[i].lower_band
          current_close == bars[i].close
      IN  IF prev_direction = 1
          THEN IF FloatLe(current_close, current_lower)
               THEN [value |-> current_lower, direction |-> -1]
               ELSE [value |-> Smooth(PyMin(current_upper, prev_alpha_trend),
                                      prev_alpha_trend),
                     direction |-> 1]
          ELSE IF FloatLe(current_upper, current_close)
               THEN [value |-> current_upper, direction |-> 1]
               ELSE [value |-> Smooth(PyMax(current_lower, prev_alpha_trend),
                                      prev_alpha_trend),
                     direction |-> -1]

\* The loops, run from a series already holding some leading entries to
\* the end of the bars.
RECURSIVE calculate_supertrend_from(_, _)
calculate_supertrend_from(bars, series) ==
    IF Len(series) >= Len(bars) THEN series
    ELSE calculate_supertrend_from(
             bars, Append(series, supertrend_at(bars, series, Len(series) + 1)))
RECURSIVE calculate_alpha_trend_from(_, _)
calculate_alpha_trend_from(bars, series) ==
    IF Len(series) >= Len(bars) THEN series
    ELSE calculate_alpha_trend_from(
             bars, Append(series, alpha_trend_at(bars, series, Len(series) + 1)))
calculate_supertrend(bars) == calculate_supertrend_from(bars, <<>>)
calculate_alpha_trend(bars) == calculate_alpha_trend_from(bars, <<>>)

\* generate_signal's if/elif chain on the last two directions.
band_signal(series) ==
    LET current_direction == series[Len(series)].direction
        prev_direction == series[Len(series) - 1].direction
    IN  IF current_direction = 1 /\ prev_direction = -1 THEN "LONG"
        ELSE IF current_direction = -1 /\ prev_direction = 1 THEN "SHORT"
        ELSE IF current_direction = 1 THEN "LONG"
        ELSE IF current_direction = -1 THEN "SHORT"
        ELSE "FLAT"

\* Both strategies run over one bar history, one loop iteration at a time;
\* the Supertrend engine then reads its signal off the finished series.
NoSeries == [supertrend |-> <<>>, alpha_trend |-> <<>>, signal |-> "NONE"]
InitBand ==
    /\ BTIdle
    /\ AggIdle
    /\ args \in Histories
    /\ ret = [returned |-> FALSE, value |-> NoSeries]

SupertrendIter ==
    /\ UNCHANGED <<btVars, aggVars>>
    /\ ~ret.returned
    /\ Len(ret.value.supertrend) < Len(args)
    /\ ret' = [ret EXCEPT !.value.supertrend =
                 Append(@, supertrend_at(args, @, Len(@) + 1))]
    /\ UNCHANGED args

AlphaTrendIter ==
    /\ UNCHANGED <<btVars, aggVars>>
    /\ ~ret.returned
    /\ Len(ret.value.alpha_trend) < Len(args)
    /\ ret' = [ret EXCEPT !.value.alpha_trend =
                 Append(@, alpha_trend_at(args, @, Len(@) + 1))]
    /\ UNCHANGED args

SupertrendSignal ==
    /\ UNCHANGED <<btVars, aggVars>>
    /\ ~ret.returned
    /\ Len(ret.value.supertrend) = Len(args)
    /\ Len(ret.value.alpha_trend) = Len(args)
    /\ ret' = [returned |-> TRUE,
               value |-> [ret.value EXCEPT
                            !.signal = band_signal(ret.value.supertrend)]]
    /\ UNCHANGED args

BandNext ==
    \/ SupertrendIter
    \/ AlphaTrendIter
    \/ SupertrendSignal

SpecBand == InitBand /\ [][BandNext]_vars

\* ========================================================================
\* Walk-forward decisions: what a backtest step's decision is computed from
\* ========================================================================

days_back == 200

\* Two bar histories of one symbol, reaching from the first bar to the
\* present, that may differ from the third bar on.
WalkHistories ==
    { h \in Histories :
        \A j \in 1..Len(h) : h[j].close.v \in {90 * PriceUnit, 110 * PriceUnit} }
WalkPairs ==
    { p \in [a : WalkHistories, b : WalkHistories] :
        SubSeq(p.a, 1, 2) = SubSeq(p.b, 1, 2) }

\* PriceDataFetcher.get_price_data: the bars GET /prices serves from
\* now - days_back on, with no end date: up to the present.
get_price_data(history) ==
    SubSeq(history, Max(1, Len(history) - days_back + 1), Len(history))

\* What the engines answer to POST /signal {symbol, min_conf}: Supertrend and
\* AlphaTrend read their signal off the bars they fetch, with confidence
\* 0.8; the other engines are not reachable.
WalkEngineReply(i, history) ==
    LET df == get_price_data(history)
    IN  IF Engines[i] = "supertrend"
        THEN [kind |-> "ok", signal |-> band_signal(calculate_supertrend(df)),
              confidence |-> 800]
        ELSE IF Engines[i] = "alphatrend"
        THEN [kind |-> "ok", signal |-> band_signal(calculate_alpha_trend(df)),
              confidence |-> 800]
        ELSE [kind |-> "exception", signal |-> "", confidence |-> 0]

\* The decision of a backtest step: get_trading_signal(symbol, date) posts
\* {symbol, min_conf} to /decide, which gathers the engines and aggregates.
\* The date is not part of the request.
walk_decision(history, date) ==
    LET res == [i \in EngineIds |->
                  get_signal_from_service(WalkEngineReply(i, history))]
        decided == aggregate_signals(res, min_confidence)
    IN  get_trading_signal([ok |-> TRUE, decision |-> decided.decision,
                            confidence |-> decided.confidence])

NoDecisions == [a |-> <<>>, b |-> <<>>]
InitWalk ==
    /\ BTIdle
    /\ AggIdle
    /\ args \in WalkPairs
    /\ ret = [returned |-> FALSE, value |-> NoDecisions]

\* The bar a backtest's k-th step stands on: every bar after the first.
StepBar(k) == k + 1

\* One step of the backtest over history a, and of the one over history b.
WalkStepA ==
    /\ UNCHANGED <<btVars, aggVars>>
    /\ StepBar(Len(ret.value.a) + 1) <= Len(args.a)
    /\ ret' = [ret EXCEPT !.value.a =
                 Append(@, walk_decision(args.a, StepBar(Len(@) + 1)))]
    /\ UNCHANGED args

WalkStepB ==
    /\ UNCHANGED <<btVars, aggVars>>
    /\ StepBar(Len(ret.value.b) + 1) <= Len(args.b)
    /\ ret' = [ret EXCEPT !.value.b =
                 Append(@, walk_decision(args.b, StepBar(Len(@) + 1)))]
    /\ UNCHANGED args

WalkNext ==
    \/ WalkStepA
    \/ WalkStepB

SpecWalk == InitWalk /\ [][WalkNext]_vars

\* ========================================================================
\* The breakout engine (Turtle): generate_signal's raw signal
\* ========================================================================

entry_period == 20
exit_period == 10
MaxTurtleBars == 22

\* Bars with low <= close <= high.
TurtleLevels == {85, 90, 100, 105, 110}
TurtleBarSet ==
    { b \in [high : {100, 105, 110}, low : {85, 90}, close : TurtleLevels] :
        b.low <= b.close /\ b.close <= b.high }
QuietBar == [high |-> 100, low |-> 90, close |-> 95]
\* A quiet market of k bars.
Quiet(k) == [j \in 1..k |-> QuietBar]
\* The bar histories given to generate_signal: a quiet market whose oldest
\* bar and whose last two bars vary, and a history one bar short of
\* entry_period + 1.
TurtleHistories ==
    { <<first>> \o Quiet(MaxTurtleBars - 3) \o <<b1, b2>> :
          first \in {QuietBar, [high |-> 110, low |-> 85, close |-> 100]},
          b1 \in TurtleBarSet, b2 \in TurtleBarSet }
    \cup { Quiet(entry_period) }

MaxOf(S) == CHOOSE x \in S : \A y \in S : y <= x
MinOf(S) == CHOOSE x \in S : \A y \in S : x <= y
\* df[col].rolling(window=period).max() / .min() at index j (from 1), defined
\* from index period on.
RollingHigh(bars, period, j) ==
    MaxOf({ bars[k].high : k \in (j - period + 1)..j })
RollingLow(bars, period, j) ==
    MinOf({ bars[k].low : k \in (j - period + 1)..j })

\* TurtleStrategy.generate_signal: the signal before the confidence is
\* computed.
turtle_signal(bars) ==
    IF Len(bars) < Max(entry_period, exit_period) + 1 THEN "FLAT"
    ELSE
      LET n == Len(bars)
          last_price == bars[n].close
          entry_high == RollingHigh(bars, entry_period, n)
          entry_low == RollingLow(bars, entry_period, n)
          exit_high == RollingHigh(bars, exit_period, n)
          exit_low == RollingLow(bars, exit_period, n)
          prev_price == bars[n - 1].close
          prev_entry_high == RollingHigh(bars, entry_period, n - 1)
          prev_entry_low == RollingLow(bars, entry_period, n - 1)
          entry ==
              IF last_price >= entry_high /\ prev_price < prev_entry_high
              THEN "LONG"
              ELSE IF last_price <= entry_low /\ prev_price > prev_entry_low
              THEN "SHORT"
              ELSE "FLAT"
      IN  IF entry = "LONG" /\ last_price <= exit_low THEN "FLAT"
          ELSE IF entry = "SHORT" /\ last_price >= exit_high THEN "FLAT"
          ELSE entry

InitTurtle ==
    /\ BTIdle
    /\ AggIdle
    /\ args \in TurtleHistories
    /\ ret = NoReturn

CallTurtleSignal ==
    /\ UNCHANGED <<btVars, aggVars>>
    /\ ~ret.returned
    /\ ret' = [returned |-> TRUE, value |-> turtle_signal(args)]
    /\ UNCHANGED args

TurtleNext == CallTurtleSignal

SpecTurtle == InitTurtle /\ [][TurtleNext]_vars

\* ========================================================================
\* run_multi_symbol_backtest
\* ========================================================================

MaxSymbols == 3

\* The symbols of a run, in the order of main()'s list.
SymbolNames ==
    <<"XAUUSD=X", "EURUSD=X", "GBPUSD=X", "USDJPY=X", "^GSPC", "BTC-USD">>

\* How run_walk_forward_backtest can end for a symbol: a result with its
\* metrics (Sharpe ratio in thousandths), the dict {"error": ...}, or an
\* exception.
BacktestOutcomes ==
    { [kind |-> "result", sharpe_ratio |-> s] : s \in {-500, 0, 1200} }
    \cup { [kind |-> "error", sharpe_ratio |-> 0],
           [kind |-> "raises", sharpe_ratio |-> 0] }
RECURSIVE OutcomeLists(_)
OutcomeLists(n) ==
    IF n = 0 THEN { <<>> }
    ELSE LET shorter == OutcomeLists(n - 1)
         IN  shorter \cup { Append(l, o) : l \in { x \in shorter : Len(x) = n - 1 },
                                           o \in BacktestOutcomes }

\* leaderboard.sort(key=sharpe_ratio, reverse=True) turned into an ascending
\* sort.
RECURSIVE sort_by_sharpe_Ascending(_)
sort_by_sharpe_Ascending(board) ==
    IF board = <<>> THEN <<>>
    ELSE LET sorted == sort_by_sharpe_Ascending(SubSeq(board, 1, Len(board) - 1))
             e == board[Len(board)]
             before == SelectSeq(sorted, LAMBDA x : x.sharpe_ratio <= e.sharpe_ratio)
             after == SelectSeq(sorted, LAMBDA x : x.sharpe_ratio > e.sharpe_ratio)
         IN  before \o <<e>> \o after

\* leaderboard.sort(key=lambda x: x["sharpe_ratio"], reverse=True): a stable
\* sort, entries of equal Sharpe ratio keep their order.
RECURSIVE sort_by_sharpe(_)
sort_by_sharpe(board) ==
    IF board = <<>> THEN <<>>
    ELSE LET sorted == sort_by_sharpe(SubSeq(board, 1, Len(board) - 1))
             e == board[Len(board)]
             before == SelectSeq(sorted, LAMBDA x : x.sharpe_ratio >= e.sharpe_ratio)
             after == SelectSeq(sorted, LAMBDA x : x.sharpe_ratio < e.sharpe_ratio)
         IN  before \o <<e>> \o after

\* results (a dict, here the set of its items), leaderboard, and the number
\* of symbols the loop has been through.
NoResults == [results |-> {}, leaderboard |-> <<>>, backtested |-> 0]
InitMulti ==
    /\ BTIdle
    /\ AggIdle
    /\ args \in OutcomeLists(MaxSymbols)
    /\ ret = [returned |-> FALSE, value |-> NoResults]

\* One iteration of "for symbol in symbols".
BacktestSymbol ==
    /\ UNCHANGED <<btVars, aggVars>>
    /\ ~ret.returned
    /\ ret.value.backtested < Len(args)
    /\ LET i == ret.value.backtested + 1
           symbol == SymbolNames[i]
           result == args[i]
       IN  IF result.kind = "result"
           THEN ret' = [ret EXCEPT
                   !.value.results =
                       { kv \in @ : kv[1] # symbol } \cup { <<symbol, result>> },
                   !.value.leaderboard =
                       Append(@, [symbol |-> symbol,
                                  sharpe_ratio |-> result.sharpe_ratio]),
                   !.value.backtested = i]
           ELSE ret' = [ret EXCEPT !.value.backtested = i]
    /\ UNCHANGED args

\* After the loop: sort the leaderboard, save and return.
FinishMulti ==
    /\ UNCHANGED <<btVars, aggVars>>
    /\ ~ret.returned
    /\ ret.value.backtested = Len(args)
    /\ ret' = [returned |-> TRUE,
               value |-> [ret.value EXCEPT
                            !.leaderboard = sort_by_sharpe(@)]]
    /\ UNCHANGED args

MultiNext ==
    \/ BacktestSymbol
    \/ FinishMulti

SpecMulti == InitMulti /\ [][MultiNext]_vars

\* ========================================================================
\* Properties of the backtester (checked under SpecBT)
\* ========================================================================

\* Positions opened and not yet recorded as a closed trade.
OpenPositions == opened - Len(trades)

\* C1: at every point of a run (after each exit evaluation, after each entry
\* evaluation, after the final force-close) at most one position is open,
\* and a position is never opened while one is held.
C1_AtMostOnePosition ==
    /\ [](OpenPositions \in {0, 1})
    /\ [](pc # "done" => (current_position # None <=> OpenPositions = 1))
    /\ [](pc = "done" => OpenPositions = 0)
    /\ [][opened' > opened => current_position = None /\ OpenPositions = 0]_vars

\* C1 witness: an entry evaluation met a non-FLAT decision while a position
\* opened at an earlier step was still held, and the position was kept.
C1_Witness ==
    /\ pc = "loop"
    /\ step >= 2
    /\ signal.decision # "FLAT"
    /\ current_position # None
    /\ current_position.entry_date < current_date
    /\ OpenPositions = 1

\* C8: within a step the exit evaluation precedes the entry evaluation; a
\* position is opened in the step iff no position is open after the exit
\* evaluation, the decision is not FLAT and the computed size is > 0; the
\* new position records the step's date, close price, decision side and
\* confidence.
C8_EntryRule ==
    /\ [][pc = "exit" => pc' = "entry"]_vars
    /\ [][opened' # opened => pc = "entry" /\ opened' = opened + 1]_vars
    /\ [][pc = "entry" =>
            (opened' = opened + 1 <=>
                /\ current_position = None
                /\ signal.decision \in {"LONG", "SHORT"}
                /\ calculate_position_size(signal, current_price, capital) > 0)]_vars
    /\ [][opened' = opened + 1 =>
            /\ current_position'.entry_date = current_date
            /\ current_position'.entry_price = current_price
            /\ current_position'.side = signal.decision
            /\ current_position'.signal_confidence = signal.confidence
            /\ current_position'.size > 0]_vars
    /\ [][pc = "entry" /\ opened' = opened => current_position' = current_position]_vars

\* C8 witness: a position was closed and a new one opened in the same step.
C8_Witness ==
    /\ pc = "loop"
    /\ Len(trades) >= 1
    /\ current_position # None
    /\ current_position.entry_date = current_date
    /\ trades[Len(trades)].exit_date = current_date
    /\ current_position.signal_confidence = signal.confidence

\* C9 as claimed: a decide request is made only after the step's exit
\* evaluation and only if no position is then open, so that at a step where
\* the position stays open after the exit evaluation no request has been
\* made (the requests sent are fewer than the steps started).
C9_RequestOnlyWhenFlat ==
    pc = "entry" /\ current_position # None => requests < step

\* C9 amended: exactly one decide request is made per step, at the head of
\* the step before the exit evaluation and whether or not a position is
\* open; the decision is acted on only after the exit evaluation and only
\* if no position is then open.
C9_RequestEveryStep ==
    /\ [](requests = step)
    /\ [][requests' # requests =>
            pc = "loop" /\ pc' = "exit" /\ requests' = requests + 1]_vars
    /\ [][opened' > opened =>
            /\ pc = "entry"
            /\ current_position = None
            /\ current_position'.side = signal.decision]_vars

\* C9 witness: the position stays open after the exit evaluation of a step
\* whose decide request has been made.
C9_Witness ==
    /\ pc = "entry"
    /\ step >= 2
    /\ current_position # None
    /\ requests = step

\* C10: in the loop an open position is closed at a step iff the calendar
\* days from its entry date to the step's date are >= min_holding_days,
\* whatever the number of bars elapsed and the step's decision; otherwise
\* the exit evaluation leaves position, capital and ledger unchanged.
C10_ExitRule ==
    /\ [][pc = "exit" /\ current_position # None
            /\ current_date - current_position.entry_date >= min_holding_days =>
               /\ current_position' = None
               /\ Len(trades') = Len(trades) + 1
               /\ trades'[Len(trades')].exit_date = current_date
               /\ trades'[Len(trades')].days_held
                     = current_date - current_position.entry_date]_vars
    /\ [][pc = "exit" /\ current_position # None
            /\ current_date - current_position.entry_date < min_holding_days =>
               UNCHANGED <<current_position, capital, trades>>]_vars
    /\ [][pc = "exit" /\ current_position = None =>
               UNCHANGED <<current_position, capital, trades>>]_vars
    /\ [][pc = "entry" => UNCHANGED <<capital, trades>>]_vars

\* C10 witness: a position held over two bars (6 calendar days) was not
\* closed by the exit evaluation, under a non-FLAT decision.
C10_Witness ==
    /\ pc = "entry"
    /\ current_position # None
    /\ current_date - current_position.entry_date = 6
    /\ signal.decision # "FLAT"

\* C11: every recorded trade, closed in the loop or force-closed, has
\* commission = (entry_price + exit_price) * size * commission_rate and
\* pnl = the directional price difference * size - commission, and closing
\* it changes capital by exactly that pnl: capital is the initial capital
\* plus the pnl of the recorded trades, and changes only with the ledger.
C11_TradeAccounting ==
    /\ [](\A k \in 1..Len(trades) :
            LET t == trades[k]
            IN  /\ t.commission =
                      ((t.entry_price + t.exit_price) * t.size * commission_rate)
                          \div 1000
                /\ t.side \in {"LONG", "SHORT"}
                /\ t.side = "LONG" =>
                      t.pnl = (t.exit_price - t.entry_price) * t.size
                                 - t.commission
                /\ t.side = "SHORT" =>
                      t.pnl = (t.entry_price - t.exit_price) * t.size
                                 - t.commission)
    /\ [](pc # "start" =>
            capital = initial_capital + SumPnl(trades, Len(trades)))
    /\ [][Len(trades') = Len(trades) + 1 /\ pc # "start" =>
            /\ SubSeq(trades', 1, Len(trades)) = trades
            /\ capital' = capital + trades'[Len(trades')].pnl
            /\ trades'[Len(trades')].exit_price = current_price'
            /\ trades'[Len(trades')].entry_price = current_position.entry_price
            /\ trades'[Len(trades')].size = current_position.size]_vars

\* C11 witness: a run ended with a winning SHORT closed in the loop and a
\* losing trade force-closed, capital having moved by both.
C11_Witness ==
    /\ pc = "done"
    /\ Len(trades) = 2
    /\ trades[1].side = "SHORT"
    /\ trades[1].pnl > 0
    /\ trades[2].pnl < 0
    /\ trades[2].commission > 0
    /\ capital = initial_capital + trades[1].pnl + trades[2].pnl

\* C13: when the loop ends with a position still open, the position is
\* closed at the final bar's date and close price with the pnl and
\* commission formulas of the loop, recorded as a trade and applied to
\* capital; after a completed run no position is left without its trade,
\* and the trades are one per position opened.
C13_ForceClose ==
    /\ [][pc = "loop" /\ pc' = "done" /\ current_position # None =>
            LET t == trades'[Len(trades')]
                p == current_position
                gross == IF p.side = "LONG"
                         THEN (current_price' - p.entry_price) * p.size
                         ELSE (p.entry_price - current_price') * p.size
            IN  /\ Len(trades') = Len(trades) + 1
                /\ SubSeq(trades', 1, Len(trades)) = trades
                /\ t.entry_date = p.entry_date
                /\ t.side = p.side
                /\ t.entry_price = p.entry_price
                /\ t.size = p.size
                /\ t.exit_date = current_date'
                /\ t.exit_price = current_price'
                /\ t.commission =
                      ((p.entry_price + current_price') * p.size
                          * commission_rate) \div 1000
                /\ t.pnl = gross - t.commission
                /\ capital' = capital + t.pnl]_vars
    /\ [][pc = "loop" /\ pc' = "done" /\ current_position = None =>
            UNCHANGED <<trades, capital>>]_vars
    /\ [](pc = "done" =>
            /\ Len(trades) = opened
            /\ \A j, k \in 1..Len(trades) :
                  trades[j].entry_date = trades[k].entry_date => j = k)
    /\ [][opened' = opened + 1 =>
            \A k \in 1..Len(trades) :
                trades[k].entry_date < current_position'.entry_date]_vars

\* C13 witness: a run ended by force-closing the second position it
\* opened, at a price other than the entry price.
C13_Witness ==
    /\ pc = "done"
    /\ opened = 2
    /\ Len(trades) = 2
    /\ current_position # None
    /\ trades[2].entry_date = current_position.entry_date
    /\ trades[2].exit_date = current_date
    /\ trades[2].exit_price # trades[2].entry_price
    /\ capital # initial_capital + trades[1].pnl

\* Loop iterations run to their end.
StepsCompleted == IF pc \in {"exit", "entry"} THEN step - 1 ELSE step

\* C14: the equity curve starts with the initial capital and gains exactly
\* one point per step, trade or no trade, the point being the capital at
\* the end of the step; its length is the number of steps + 1, and its
\* earlier points are never changed, reordered or removed.
C14_EquityCurve ==
    /\ [](/\ Len(equity_curve) = StepsCompleted + 1
          /\ equity_curve[1] = initial_capital)
    /\ [](pc = "loop" /\ step > 0 =>
            equity_curve[Len(equity_curve)] = capital)
    /\ [][pc = "entry" => equity_curve' = Append(equity_curve, capital')]_vars
    /\ [][pc # "entry" => equity_curve' = equity_curve]_vars
    /\ [](pc = "done" => Len(equity_curve) = step + 1)

\* C14 witness: a completed run whose first step left capital alone and
\* whose second step closed a trade; each has its point.
C14_Witness ==
    /\ pc = "done"
    /\ step = 2
    /\ Len(equity_curve) = 3
    /\ equity_curve[2] = equity_curve[1]
    /\ equity_curve[3] # equity_curve[2]
    /\ Len(trades) >= 1

C12_SizeWithinCap ==
    ret.returned =>
        LET sig == args.signal
            price == args.current_price
            cap == args.available_capital
            sl == SlPct(sig)
            size == ret.value
        IN  /\ sig.decision = "FLAT" => size = 0
            /\ sig.decision # "FLAT" /\ price > 0 /\ sl > 0 /\ cap > 0 =>
                  /\ size >= 0
                  /\ size * price * sl <= 20 * cap
                  /\ size * price * 100 <= 95 * cap
                  /\ \/ (size + 1) * price * sl > 20 * cap
                     \/ (size + 1) * price * 100 > 95 * cap

\* C12 witness: a stop-loss percentage small enough for the 95% cap to be
\* the smaller limit, and the size sits at the cap.
C12_Witness ==
    /\ ret.returned
    /\ args.signal.decision = "SHORT"
    /\ SlPct(args.signal) = 10
    /\ args.available_capital = 100000
    /\ args.current_price = 300
    /\ ret.value > 0
    /\ ret.value * args.current_price * 100 <= 95 * args.available_capital
    /\ (ret.value + 1) * args.current_price * 100 > 95 * args.available_capital

\* ========================================================================
\* Properties of calculate_trade_metrics (checked under SpecMetrics)
\* ========================================================================

Winners == {k \in 1..Len(args.trades) : args.trades[k].pnl > 0}
Losers == {k \in 1..Len(args.trades) : args.trades[k].pnl < 0}

\* C15: for every ledger profit_factor is +infinity exactly when there is
\* at least one winning trade and no losing trade, and it is 0 whenever
\* there is no winning trade (an empty ledger, a ledger of zero-pnl or
\* losing trades only).
C15_ProfitFactor ==
    ret.returned =>
        /\ ret.value.profit_factor = Infinity
              <=> Winners # {} /\ Losers = {}
        /\ Winners = {} => ret.value.profit_factor = Finite(0)

\* The equity curve of the ledger never goes down.
NonDecreasing ==
    \A k \in 1..Len(args.trades) :
        MetricsEquity(args.trades, k - 1) <= MetricsEquity(args.trades, k)

\* Some point of the curve is below the running maximum by more than
\* 0.05% of that maximum.
DropsHalfThousandth ==
    \E k \in 0..Len(args.trades) :
        2000 * (RollingMax(args.trades, k) - MetricsEquity(args.trades, k))
            > RollingMax(args.trades, k)

\* C16 as claimed: the reported max_drawdown is <= 0, and it is 0 only
\* when the equity curve is non-decreasing: any decrease from a running
\* maximum gives a strictly negative reported value.
C16_ZeroOnlyIfMonotone ==
    ret.returned =>
        /\ ret.value.max_drawdown <= 0
        /\ ret.value.max_drawdown = 0 <=> NonDecreasing

\* C16 amended: the reported max_drawdown is the largest relative decrease
\* from a running maximum rounded to three decimals; it is <= 0, it is 0
\* for a non-decreasing curve, and it is strictly negative iff some point
\* is below the running maximum by more than 0.05% of it (a smaller
\* decrease is reported as 0).
C16_DrawdownRounded ==
    ret.returned =>
        /\ ret.value.max_drawdown <= 0
        /\ NonDecreasing => ret.value.max_drawdown = 0
        /\ ret.value.max_drawdown < 0 <=> DropsHalfThousandth
        /\ \A k \in 0..Len(args.trades) :
              LET m == RollingMax(args.trades, k)
                  e == MetricsEquity(args.trades, k)
              IN  2 * (ret.value.max_drawdown * m - (e - m) * 1000) <= m

\* C16 witness: a curve that goes down by 0.04% and a reported drawdown
\* of 0.
C16_Witness ==
    /\ ret.returned
    /\ ~NonDecreasing
    /\ \E k \in 1..Len(args.trades) : args.trades[k].pnl > 0
    /\ ~DropsHalfThousandth
    /\ ret.value.max_drawdown = 0

\* ========================================================================
\* Properties of the engines' POST /signal (checked under SpecEngine)
\* ========================================================================

\* The signal the strategy computed for the call, before the endpoint's
\* minimum-confidence validation.
Computed == generate_signal(args.engine, args.market)

\* The call got as far as the validation.
Validated ==
    /\ ret.returned
    /\ args.request.symbol # ""
    /\ args.market.bars >= EndpointMinBars[args.engine]

\* C17: a computed LONG or SHORT whose confidence is below the caller's
\* min_conf is returned as FLAT, with the computed confidence unchanged
\* and a rationale line about the threshold appended; a signal whose
\* confidence is >= min_conf, and any FLAT signal, is returned unchanged.
C17_ForcedFlatKeepsConfidence ==
    Validated =>
        LET mc == IF args.request.min_conf.given
                  THEN args.request.min_conf.value ELSE engine_default_min_conf
            below == Computed.signal \in {"LONG", "SHORT"}
                        /\ Computed.confidence < mc
        IN  /\ ret.value.status = 200
            /\ below =>
                  /\ ret.value.signal = "FLAT"
                  /\ ret.value.confidence = Computed.confidence
                  /\ Len(ret.value.rationale) = Len(Computed.rationale) + 1
                  /\ SubSeq(ret.value.rationale, 1, Len(Computed.rationale))
                        = Computed.rationale
                  /\ ret.value.rationale[Len(ret.value.rationale)]
                        = "Signal confidence below minimum"
            /\ ~below => ret.value = Computed

\* C17 witness: a SHORT computed with confidence 0.65 under min_conf 0.7
\* came back FLAT with confidence 0.65.
C17_Witness ==
    /\ Validated
    /\ args.request.min_conf = Given(700)
    /\ Computed.signal = "SHORT"
    /\ Computed.confidence = 650
    /\ ret.value.signal = "FLAT"
    /\ ret.value.confidence = 650
    /\ Len(ret.value.rationale) = 2

\* The minimum lookback of engine e: the bars its strategy and its endpoint
\* both accept.
MinLookback(e) ==
    IF StrategyMinBars[e] >= EndpointMinBars[e]
    THEN StrategyMinBars[e] ELSE EndpointMinBars[e]

\* C19: an engine given fewer bars than its minimum lookback does not fail
\* the request: it answers FLAT with confidence 0 and an explanatory
\* rationale, for every engine and every bar count below the minimum.
C19_TooFewBarsIsFlat ==
    /\ ret.returned
    /\ args.request.symbol # ""
    /\ args.market.bars >= 0
    /\ args.market.bars < MinLookback(args.engine)
    => /\ ret.value.status = 200
       /\ ret.value.signal = "FLAT"
       /\ ret.value.confidence = 0
       /\ Len(ret.value.rationale) >= 1

\* ========================================================================
\* Properties of the aggregator over its engines (checked under SpecSuite)
\* ========================================================================

\* C18: every confidence an engine answers (its insufficient-data and gate
\* returns included) and the confidence of the aggregated decision lie in
\* [0, 1], for every combination of accumulated signal strength, trend
\* strength and volatility factor.
C18_ConfidenceInUnitInterval ==
    /\ \A i \in EngineIds :
          replies[i].confidence >= 0 /\ replies[i].confidence <= 1000
    /\ \A i \in DOMAIN results :
          results[i].confidence >= 0 /\ results[i].confidence <= 1000
    /\ apc = "done" =>
          /\ response.status = 200
          /\ response.confidence >= 0
          /\ response.confidence <= 1000
          /\ \A i \in EngineIds :
                /\ response.components[i].confidence >= 0
                /\ response.components[i].confidence <= 1000

\* C18 witness: engines whose accumulated strength is above 1 answered
\* confidence 1, and the aggregation decided with a confidence in (0, 1].
C18_Witness ==
    /\ apc = "done"
    /\ \E i \in EngineIds :
          /\ args[i].signal_strength = 15000
          /\ replies[i].kind = "ok"
          /\ replies[i].confidence = 1000
    /\ \E i \in EngineIds :
          /\ replies[i].kind = "ok"
          /\ replies[i].signal = "SHORT"
    /\ response.decision = "LONG"
    /\ response.confidence > 0
    /\ response.confidence < 1000

\* ========================================================================
\* Properties of the aggregator (checked under SpecAgg and SpecGather)
\* ========================================================================

\* The engines whose POST /signal gave a non-FLAT response, by direction.
ValidSet ==
    {i \in EngineIds : replies[i].kind = "ok" /\ replies[i].signal # "FLAT"}
LongSet ==
    {i \in EngineIds : replies[i].kind = "ok" /\ replies[i].signal = "LONG"}
ShortSet ==
    {i \in EngineIds : replies[i].kind = "ok" /\ replies[i].signal = "SHORT"}

RECURSIVE SumConf(_)
SumConf(S) ==
    IF S = {} THEN 0
    ELSE LET i == CHOOSE x \in S : TRUE
         IN  replies[i].confidence + SumConf(S \ {i})

\* The average confidence of the non-FLAT engines is >= mc.
PassesGate(mc) ==
    ValidSet # {} /\ SumConf(ValidSet) >= mc * Cardinality(ValidSet)

\* The gate as the doubles of the code decide it: an average that is
\* exactly mc may come out below mc.
GateOpen(mc) ==
    /\ PassesGate(mc)
    /\ ~ /\ <<mc, Cardinality(ValidSet)>> \in RoundedDownMeans
         /\ \A i \in ValidSet : replies[i].confidence = mc

Decided == apc = "done" /\ response.status = 200

\* C2: the decision is LONG iff the average confidence of the non-FLAT
\* engines is >= min_conf and strictly more engines say LONG than SHORT,
\* SHORT iff the mirror holds, and FLAT when the LONG and SHORT counts tie.
C2_MajorityRule ==
    Decided =>
        LET mc == RequestMinConf(request)
            nl == Cardinality(LongSet)
            ns == Cardinality(ShortSet)
        IN  /\ response.decision \in {"LONG", "SHORT", "FLAT"}
            /\ response.decision = "LONG" <=> PassesGate(mc) /\ nl > ns
            /\ response.decision = "SHORT" <=> PassesGate(mc) /\ ns > nl
            /\ nl = ns => response.decision = "FLAT"

\* C3 as claimed: with at least one non-FLAT engine and an average
\* confidence below min_conf the decision is FLAT and the reported
\* confidence is that average, not 0.
C3_ReportsTheAverage ==
    Decided /\ ValidSet # {} /\ ~PassesGate(RequestMinConf(request)) =>
        /\ response.decision = "FLAT"
        /\ response.confidence * Cardinality(ValidSet) = SumConf(ValidSet)
        /\ response.confidence # 0

\* C3 amended: in that case the decision is FLAT and the reported
\* confidence is that average rounded to three decimals (within half a
\* thousandth of it, and not reset to 0); valid_signals >= 1 tells the
\* case from the no-signal one.
C3_ReportsRoundedAverage ==
    Decided /\ ValidSet # {} /\ ~PassesGate(RequestMinConf(request)) =>
        LET n == Cardinality(ValidSet)
            d == response.confidence * n - SumConf(ValidSet)
        IN  /\ response.decision = "FLAT"
            /\ 2 * d <= n /\ -2 * d <= n
            /\ 2 * SumConf(ValidSet) > n => response.confidence > 0
            /\ response.valid_signals = n
            /\ response.valid_signals >= 1

\* C3 witness: a suppressed decision whose average is not a whole number
\* of thousandths.
C3_Witness ==
    /\ Decided
    /\ ValidSet # {}
    /\ ~PassesGate(RequestMinConf(request))
    /\ SumConf(ValidSet) % Cardinality(ValidSet) # 0
    /\ response.decision = "FLAT"
    /\ response.confidence > 0

AllComponentsFlat ==
    /\ Len(response.components) = NumEngines
    /\ \A i \in EngineIds : response.components[i].signal = "FLAT"

\* C4: when every one of the 7 components is FLAT (those substituted for
\* failed engines included) the decision is FLAT with confidence exactly 0
\* and valid_signals = 0.
C4_AllFlat ==
    Decided /\ AllComponentsFlat =>
        /\ response.decision = "FLAT"
        /\ response.confidence = 0
        /\ response.valid_signals = 0
        /\ response.long_signals = 0
        /\ response.short_signals = 0

\* C4 witness: all components FLAT, some from engines answering FLAT with a
\* confidence of their own, some substituted for failed engines.
C4_Witness ==
    /\ Decided
    /\ AllComponentsFlat
    /\ \E i \in EngineIds : replies[i].kind = "ok" /\ replies[i].confidence > 0
    /\ \E i \in EngineIds : replies[i].kind = "http_status"
    /\ \E i \in EngineIds : replies[i].kind = "exception"
    /\ response.confidence = 0

FailureRationales == {"Service HTTP error", "Service error"}

\* C5: whatever subset of the engine calls fails (HTTP error status,
\* transport error, timeout), the aggregation answers a decision with one
\* component per engine; a failed engine's component is FLAT with
\* confidence 0 and a rationale recording the failure, it is counted in
\* none of valid/long/short signals, and the aggregation never aborts.
C5_FailuresDegrade ==
    apc = "done" /\ request.symbol # "" =>
        /\ response.status = 200
        /\ Len(response.components) = NumEngines
        /\ \A i \in EngineIds :
              /\ response.components[i].svc = Engines[i]
              /\ replies[i].kind # "ok" =>
                    /\ response.components[i].signal = "FLAT"
                    /\ response.components[i].confidence = 0
                    /\ response.components[i].rationale \in FailureRationales
              /\ replies[i].kind = "ok" =>
                    /\ response.components[i].signal = replies[i].signal
                    /\ response.components[i].confidence = replies[i].confidence
                    /\ response.components[i].rationale \notin FailureRationales
        /\ response.valid_signals = Cardinality(ValidSet)
        /\ response.long_signals = Cardinality(LongSet)
        /\ response.short_signals = Cardinality(ShortSet)

\* C5 witness: an HTTP error status, a transport error and healthy engines
\* in one aggregation that still decides LONG.
C5_Witness ==
    /\ Decided
    /\ \E i \in EngineIds : replies[i].kind = "http_status"
    /\ \E i \in EngineIds : replies[i].kind = "exception"
    /\ Cardinality({i \in EngineIds : replies[i].kind # "ok"}) = 4
    /\ response.decision = "LONG"

\* C6: one call per engine; the reduction happens only after all 7 calls
\* have ended; for every order in which they end the answer lists the
\* components in the fixed engine order, each with its own engine's reply,
\* and gives the decision, confidence and counts that the replies alone
\* determine.
C6_OrderIndependent ==
    /\ [][apc = "gather" /\ apc' = "done" =>
             /\ Len(done_order) = NumEngines
             /\ \A i \in EngineIds : results[i] # Pending]_vars
    /\ [](\A j, k \in 1..Len(done_order) :
             done_order[j] = done_order[k] => j = k)
    /\ [](apc = "done" =>
            LET mc == RequestMinConf(request)
                n == Cardinality(ValidSet)
                nl == Cardinality(LongSet)
                ns == Cardinality(ShortSet)
                d == response.confidence * n - SumConf(ValidSet)
            IN  /\ response.status = 200
                /\ Len(response.components) = NumEngines
                /\ \A i \in EngineIds :
                      /\ response.components[i].svc = Engines[i]
                      /\ response.components[i].signal =
                            (IF replies[i].kind = "ok"
                             THEN replies[i].signal ELSE "FLAT")
                      /\ response.components[i].confidence =
                            (IF replies[i].kind = "ok"
                             THEN replies[i].confidence ELSE 0)
                /\ response.valid_signals = n
                /\ response.long_signals = nl
                /\ response.short_signals = ns
                /\ response.decision =
                      (IF GateOpen(mc) /\ nl > ns THEN "LONG"
                       ELSE IF GateOpen(mc) /\ ns > nl THEN "SHORT"
                       ELSE "FLAT")
                /\ 2 * d <= n /\ -2 * d <= n)

\* C6 witness: the last engine ended first and the first ended last, and
\* their replies differ.
C6_Witness ==
    /\ apc = "done"
    /\ Len(done_order) = NumEngines
    /\ done_order[1] = NumEngines
    /\ done_order[NumEngines] = 1
    /\ replies[1] # replies[NumEngines]
    /\ response.status = 200

\* C7: a decide request without a symbol is rejected with the invalid-input
\* error (HTTP 400): no engine is queried, no decision is produced and the
\* error is not turned into another failure kind.
C7_MissingSymbolIs400 ==
    apc = "done" /\ request.symbol = "" =>
        /\ response.status = 400
        /\ results = <<>>
        /\ response.decision = ""


\* ========================================================================
\* Properties of the band recurrence (checked under SpecBand)
\* ========================================================================

\* C23: the band recurrence of Supertrend and of AlphaTrend is deterministic
\* and restartable: computing it again on the same bars gives the same
\* series; the entry at bar i is decided by the entry at bar i-1 and bar i
\* alone, whatever the other bars are; and resuming from the stored entry
\* of any bar k over the bars after k gives the entries of the full run.
C23_Restartable ==
    LET st == ret.value.supertrend
        at == ret.value.alpha_trend
        full_st == calculate_supertrend(args)
        full_at == calculate_alpha_trend(args)
        n == Len(args)
    IN  /\ st = SubSeq(full_st, 1, Len(st))
        /\ at = SubSeq(full_at, 1, Len(at))
        /\ \A k \in 1..Len(st) :
              calculate_supertrend_from(SubSeq(args, k, n), <<st[k]>>)
                  = SubSeq(full_st, k, n)
        /\ \A k \in 1..Len(at) :
              calculate_alpha_trend_from(SubSeq(args, k, n), <<at[k]>>)
                  = SubSeq(full_at, k, n)
        /\ \A i \in 2..Len(st) : \A b \in WarmupBars \cup EnvelopeBars :
              supertrend_at(<<b, args[i]>>, <<st[i - 1]>>, 2) = st[i]
        /\ \A i \in 2..Len(at) : \A b \in WarmupBars \cup EnvelopeBars :
              alpha_trend_at(<<b, args[i]>>, <<at[i - 1]>>, 2) = at[i]

\* C23 witness: both series are complete, the direction went down and came
\* back up, and the smoothing made the AlphaTrend value differ from the
\* Supertrend value.
C23_Witness ==
    /\ ret.returned
    /\ \E k \in 2..(MaxBars - 1) :
          /\ ret.value.supertrend[k].direction = -1
          /\ ret.value.supertrend[k + 1].direction = 1
    /\ \E i \in 2..MaxBars :
          ret.value.alpha_trend[i].value # ret.value.supertrend[i].value

\* The smaller (greater) of two values, of which an undefined one does not
\* count.
LeastOf(a, b) ==
    IF a.nan THEN b ELSE IF b.nan THEN a ELSE IF a.v <= b.v THEN a ELSE b
GreatestOf(a, b) ==
    IF a.nan THEN b ELSE IF b.nan THEN a ELSE IF a.v >= b.v THEN a ELSE b

\* C24: the Supertrend series starts with direction up; from up it turns
\* down at bar i exactly when close_i <= lower_i, the value becoming lower_i,
\* and otherwise stays up with value min(upper_i, previous value); from down
\* it turns up exactly when close_i >= upper_i, the value becoming upper_i,
\* and otherwise stays down with value max(lower_i, previous value); every
\* direction is +1 or -1; the raw signal is LONG iff the last direction is
\* +1 and SHORT iff it is -1.
C24_StepRule ==
    LET st == ret.value.supertrend
    IN  /\ \A i \in 1..Len(st) : st[i].direction \in {1, -1}
        /\ Len(st) >= 1 => st[1].direction = 1
        /\ \A i \in 2..Len(st) :
              LET p == st[i - 1]
                  c == st[i]
                  b == args[i]
              IN  /\ p.direction = 1 =>
                        /\ c.direction = -1 <=> b.close.v <= b.lower_band.v
                        /\ c.direction = -1 => c.value = b.lower_band
                        /\ c.direction = 1 =>
                              c.value = LeastOf(b.upper_band, p.value)
                  /\ p.direction = -1 =>
                        /\ c.direction = 1 <=> b.close.v >= b.upper_band.v
                        /\ c.direction = 1 => c.value = b.upper_band
                        /\ c.direction = -1 =>
                              c.value = GreatestOf(b.lower_band, p.value)
        /\ ret.returned =>
              /\ ret.value.signal = "LONG" <=> st[Len(st)].direction = 1
              /\ ret.value.signal = "SHORT" <=> st[Len(st)].direction = -1

\* C24 witness: a finished run in which the direction turned down on a close
\* equal to the lower envelope, the band then stayed on its previous value
\* below the upper envelope, and the signal is SHORT.
C24_Witness ==
    /\ ret.returned
    /\ ret.value.signal = "SHORT"
    /\ \E i \in 2..(MaxBars - 1) :
          /\ ret.value.supertrend[i - 1].direction = 1
          /\ ret.value.supertrend[i].direction = -1
          /\ args[i].close = args[i].lower_band
          /\ ret.value.supertrend[i + 1].direction = -1
          /\ ret.value.supertrend[i + 1].value = ret.value.supertrend[i].value
          /\ ret.value.supertrend[i + 1].value # args[i + 1].lower_band


\* ========================================================================
\* Properties of the breakout engine (checked under SpecTurtle)
\* ========================================================================

\* The highest high and the lowest low of the entry_period bars before bar j.
HighestBefore(bars, j) ==
    MaxOf({ bars[k].high : k \in (j - entry_period)..(j - 1) })
LowestBefore(bars, j) ==
    MinOf({ bars[k].low : k \in (j - entry_period)..(j - 1) })

\* C25: with enough history, the raw signal is LONG if the last close is
\* strictly above the highest high of the 20 bars before it while the
\* previous close was below its own 20-bar rolling high, SHORT if the last
\* close is strictly below the lowest low of the 20 bars before it while the
\* previous close was above its own rolling low, and FLAT otherwise.
C25_Breakout ==
    (ret.returned /\ Len(args) > entry_period) =>
        LET n == Len(args)
            up == /\ args[n].close > HighestBefore(args, n)
                  /\ args[n - 1].close < RollingHigh(args, entry_period, n - 1)
            down == /\ args[n].close < LowestBefore(args, n)
                    /\ args[n - 1].close > RollingLow(args, entry_period, n - 1)
        IN  ret.value = (IF up THEN "LONG" ELSE IF down THEN "SHORT" ELSE "FLAT")


\* ========================================================================
\* Properties of the walk-forward decisions (checked under SpecWalk)
\* ========================================================================

\* C21: the decision of a backtest step depends only on the bars dated at
\* or before that step: two backtests whose bar histories agree up to the
\* bar of step k obtain the same decision at step k.
C21_PointInTime ==
    \A k \in 1..Min(Len(ret.value.a), Len(ret.value.b)) :
        SubSeq(args.a, 1, StepBar(k)) = SubSeq(args.b, 1, StepBar(k))
            => ret.value.a[k] = ret.value.b[k]


\* ========================================================================
\* Properties of run_multi_symbol_backtest (checked under SpecMulti)
\* ========================================================================

\* The symbols whose backtest gave a result.
Succeeded == { SymbolNames[i] : i \in { j \in 1..Len(args) : args[j].kind = "result" } }

\* C22: the returned leaderboard has exactly one entry for each symbol whose
\* backtest succeeded, carrying that backtest's Sharpe ratio, in descending
\* order of Sharpe ratio; results holds exactly the same symbols; a symbol
\* whose backtest returned an error or raised is in neither, and the loop
\* went through every symbol all the same.
C22_Leaderboard ==
    ret.returned =>
        LET board == ret.value.leaderboard
        IN  /\ { board[k].symbol : k \in 1..Len(board) } = Succeeded
            /\ Len(board) = Cardinality(Succeeded)
            /\ \A k \in 1..Len(board) : \E i \in 1..Len(args) :
                  /\ SymbolNames[i] = board[k].symbol
                  /\ args[i].kind = "result"
                  /\ args[i].sharpe_ratio = board[k].sharpe_ratio
            /\ \A k \in 1..(Len(board) - 1) :
                  board[k].sharpe_ratio >= board[k + 1].sharpe_ratio
            /\ { kv[1] : kv \in ret.value.results } = Succeeded
            /\ ret.value.backtested = Len(args)

\* C22 witness: the first symbol's backtest failed, two later ones succeeded
\* with the lower Sharpe ratio first, and the leaderboard returned lists
\* them the other way round.
C22_Witness ==
    /\ ret.returned
    /\ Len(args) >= 3
    /\ args[1].kind \in {"error", "raises"}
    /\ args[2].kind = "result"
    /\ args[3].kind = "result"
    /\ args[2].sharpe_ratio < args[3].sharpe_ratio
    /\ Len(ret.value.leaderboard) >= 2
    /\ ret.value.leaderboard[1].symbol = SymbolNames[3]


\* ========================================================================
\* Capital, equity curve and ledger of a run (checked under SpecBT)
\* ========================================================================

\* The capital is the initial capital plus the pnl of the trades recorded so
\* far; it changes only with a trade being recorded, and not with a position
\* being opened.
CapitalConserved ==
    /\ [](capital = initial_capital + SumPnl(trades, Len(trades)))
    /\ [][capital' # capital => Len(trades') = Len(trades) + 1]_vars
    /\ [][opened' > opened => capital' = capital]_vars

\* C26 as stated: capital conservation, and every completed run returns
\* metrics whose final_capital is the capital at the end of the run.
C26_FinalCapitalAlways ==
    /\ CapitalConserved
    /\ [](pc = "done" =>
            /\ "final_capital" \in DOMAIN ret.value.metrics
            /\ ret.value.metrics.final_capital = capital)

\* C26: capital conservation (the capital is the initial capital plus the
\* pnl of the recorded trades, changes only with a trade being recorded and
\* not with a position being opened), and a completed run with at least one
\* trade returns metrics whose final_capital is the capital at the end of
\* the run; a run without a trade returns metrics without final_capital.
C26_Conservation ==
    /\ CapitalConserved
    /\ [](pc = "done" /\ trades # <<>> =>
            /\ "final_capital" \in DOMAIN ret.value.metrics
            /\ ret.value.metrics.final_capital = capital)
    /\ [](pc = "done" /\ trades = <<>> =>
            "final_capital" \notin DOMAIN ret.value.metrics)

\* C26 witness: a run closed one trade in the loop, opened a second position
\* and ended with its force-close at another price; the metrics' final
\* capital is the capital.
C26_Witness ==
    /\ pc = "done"
    /\ Len(trades) = 2
    /\ current_position # None
    /\ trades[2].exit_price # trades[2].entry_price
    /\ capital # initial_capital + trades[1].pnl
    /\ ret.value.metrics.final_capital = capital

\* C27: for every completed run the last point of the returned equity curve
\* is the final capital, the initial capital plus the pnl of all the trades
\* of the returned ledger, also when the run ends with a force-close.
C27_CurveEndsAtCapital ==
    pc = "done" =>
        LET curve == ret.value.equity_curve
        IN  /\ capital = initial_capital
                           + SumPnl(ret.value.trades, Len(ret.value.trades))
            /\ curve[Len(curve)] = capital

\* C29: the ledger is chronological and non-overlapping: no trade exits
\* before it enters, no trade enters before the previous one exits, a trade
\* is recorded only by the exit evaluation of a step (one per step) or by
\* the final force-close, one at a time, and a trade recorded by the loop
\* was held for at least min_holding_days.
C29_Chronological ==
    /\ [](\A k \in 1..Len(trades) :
             /\ trades[k].entry_date <= trades[k].exit_date
             /\ trades[k].days_held = trades[k].exit_date - trades[k].entry_date)
    /\ [](\A k \in 2..Len(trades) :
             trades[k].entry_date >= trades[k - 1].exit_date)
    /\ [](Len(trades) <= (IF pc = "done" THEN step + 1 ELSE step))
    /\ [][trades' # trades =>
             /\ trades' = Append(trades, trades'[Len(trades')])
             /\ pc \in {"exit", "loop"}
             /\ pc = "loop" => pc' = "done"]_vars
    /\ [][pc = "exit" /\ trades' # trades =>
             trades'[Len(trades')].days_held >= min_holding_days]_vars

\* C29 witness: a trade held min_holding_days or more was closed in the
\* loop, a position was opened at the same step, and the force-close
\* recorded it after fewer than min_holding_days.
C29_Witness ==
    /\ pc = "done"
    /\ Len(trades) = 2
    /\ trades[1].days_held >= min_holding_days
    /\ trades[2].entry_date = trades[1].exit_date
    /\ trades[2].days_held > 0
    /\ trades[2].days_held < min_holding_days

\* C30: a position is opened only with a strictly positive capital; once
\* the capital is zero or below, no position is opened any more, the ledger
\* stops growing and the capital stays what it is.
C30_NoEntryWithoutCapital ==
    /\ [][opened' > opened => capital > 0]_vars
    /\ [][capital <= 0 =>
             /\ opened' = opened
             /\ trades' = trades
             /\ capital' = capital]_vars
    /\ [](capital <= 0 /\ pc # "done" => current_position = None)

\* C30 witness: a SHORT closed after a price rise left a negative capital,
\* and the entry evaluation of that step, with a decision to trade, opened
\* nothing.
C30_Witness ==
    /\ pc = "loop"
    /\ capital < 0
    /\ Len(trades) = 1
    /\ trades[1].side = "SHORT"
    /\ signal.decision # "FLAT"
    /\ signal.confidence >= min_confidence
    /\ current_position = None
    /\ opened = 1
    /\ Len(equity_curve) = step + 1


\* ========================================================================
\* The aggregator composed with the engines (checked under SpecSuite)
\* ========================================================================

\* C28: with min_conf forwarded to the engines, every non-FLAT component of
\* a decision has a confidence of at least min_conf, and the confidence gate
\* never suppresses a decision: the aggregated decision is FLAT only when
\* no engine gave a valid signal or LONG and SHORT are tied.
C28_GateNeverSuppresses ==
    Decided =>
        /\ \A k \in 1..Len(response.components) :
              response.components[k].signal # "FLAT" =>
                  response.components[k].confidence
                      >= response.min_confidence_threshold
        /\ response.decision = "FLAT" =>
              \/ response.valid_signals = 0
              \/ response.long_signals = response.short_signals

====
